---- MODULE Spec2Model ----
(***************************************************************************)
(* Model of the translation invocation engine of quick-translator.         *)
(*                                                                         *)
(* This part models QuickTranslator.translate_with_api                     *)
(* (src/translate_gemini.py): the credential check, the temporary payload  *)
(* file, the two curl transports (header variant, then URL-parameter       *)
(* variant), the finally-clause that unlinks the payload file, the         *)
(* classification of the response and the three exception handlers that    *)
(* enclose the whole body.                                                 *)
(*                                                                         *)
(* Python strings built with f-strings are modelled as sequences of        *)
(* fragments (a literal, an exit code, an embedded string, the raw         *)
(* output), so "the message contains X" is a membership test.  The         *)
(* literals are English renderings of the Japanese literals of the source. *)
(* Python's 0-based index [0] is the TLA+ index [1].                       *)
(***************************************************************************)
EXTENDS Integers, Sequences, FiniteSets, TLC

(***************************************************************************)
(* Bounds                                                                  *)
(***************************************************************************)
MaxTextLen == 2      \* longest result text of a provider response
MaxDelay == 1        \* longest duration of one blocking step, in clock ticks
MaxCalls == 2        \* number of translate_with_api calls on the session
MaxKeyLen == 2       \* longest credential text printed by the login shell
MaxPathLen == 3      \* largest number of entries of the login shell's PATH
MaxArgs == 2         \* largest number of command-line arguments of main
MaxNames == 3        \* number of names the temporary directory can hold
MaxIterations == 2   \* largest iterations argument of run_benchmark

(***************************************************************************)
(* Values                                                                  *)
(***************************************************************************)
None == "None"                       \* Python None (credential, path)
NoPath == 0                          \* temp_file_path not bound yet
Unset == -1                          \* a local time variable not assigned yet

ApiKeys == {None, "", "test-gemini-api-key"}

Chars == {"a", " ", "\t", "\n"}
Whitespace == {" ", "\t", "\n"}
Texts == UNION {[1..n -> Chars] : n \in 0..MaxTextLen}

InputTexts == {"Hello"}

\* str.strip(): drop leading, then trailing, whitespace
RECURSIVE lstrip(_)
lstrip(s) ==
    IF s = <<>> THEN <<>>
    ELSE IF Head(s) \in Whitespace THEN lstrip(Tail(s)) ELSE s

RECURSIVE rstrip(_)
rstrip(s) ==
    IF s = <<>> THEN <<>>
    ELSE IF s[Len(s)] \in Whitespace THEN rstrip(SubSeq(s, 1, Len(s) - 1)) ELSE s

strip(s) == rstrip(lstrip(s))

(***************************************************************************)
(* Provider responses: the JSON documents curl may print.  A Python dict   *)
(* is a TLA+ function on its keys, a list is a sequence.                   *)
(***************************************************************************)
PartValues == {[text |-> t] : t \in Texts} \cup {[inlineData |-> "blob"]}
PartsLists == {<<>>} \cup {<<p>> : p \in PartValues}
ContentValues == {[role |-> "model"]} \cup {[parts |-> pl] : pl \in PartsLists}
CandidateValues == {[finishReason |-> "SAFETY"]} \cup {[content |-> c] : c \in ContentValues}
CandidateLists == {<<>>} \cup {<<c>> : c \in CandidateValues}
ErrorValues == {[message |-> "Invalid API key"], [code |-> 400]}

JsonDocs ==
    {[modelVersion |-> "v"]}
    \cup {[candidates |-> cl] : cl \in CandidateLists}
    \cup {[error |-> e] : e \in ErrorValues}
    \cup {[error |-> [message |-> "Invalid API key"], candidates |-> cl] :
             cl \in CandidateLists}

\* what the transport printed: a JSON document, or text that is not JSON
Stdouts ==
    {[syntax |-> "json", doc |-> d] : d \in JsonDocs}
    \cup {[syntax |-> "text", raw |-> r] : r \in {"", "Invalid JSON"}}

Stderrs == {"", "Auth error", "Connection failed"}
FailCodes == {1, 7}

\* json.loads
json_loads(s) ==
    IF s.syntax = "json" THEN [ok |-> TRUE, value |-> s.doc]
    ELSE [ok |-> FALSE, value |-> [modelVersion |-> "v"]]

(***************************************************************************)
(* Messages and exceptions                                                 *)
(***************************************************************************)
Lit(s) == [lit |-> s]
Code(n) == [code |-> n]
Str(s) == [str |-> s]
Raw(r) == [raw |-> r]
Txt(t) == [txt |-> t]

NoExc == [type |-> "None", msg |-> <<>>]
Exc(type, msg) == [type |-> type, msg |-> msg]
ValueError(msg) == Exc("ValueError", msg)

Contains(msg, frag) == \E i \in 1..Len(msg) : msg[i] = frag

MSG_NO_KEY == <<Lit("Error: environment variable GEMINI_API_KEY is not set")>>
MSG_NO_RESULT == <<Lit("Error: could not obtain the translation result")>>
MSG_EMPTY == <<Lit("Error: the translation result was empty")>>
MSG_TIMEOUT == <<Lit("Timeout error: the API call timed out")>>
LIT_CURL == Lit("curl error: connection failed (exit code: ")
LIT_DETAIL == Lit("detail: ")
LIT_BAD_JSON == Lit("Error: invalid JSON response")
LIT_API_ERROR == Lit("API error: ")
LIT_PROCESS == Lit("Process error: ")
LIT_UNEXPECTED == Lit("Unexpected error: ")

NoOutcome == [kind |-> "none", text |-> <<>>, elapsed |-> Unset, exc |-> NoExc]
Return(t, e) == [kind |-> "return", text |-> t, elapsed |-> e, exc |-> NoExc]
Raise(e) == [kind |-> "raise", text |-> <<>>, elapsed |-> Unset, exc |-> e]

(***************************************************************************)
(* State                                                                   *)
(***************************************************************************)
VARIABLES
    api_key,         \* self.api_key, resolved at construction
    pc,              \* position of the call in translate_with_api
    calls,           \* number of calls started on the session
    text,            \* the argument of the current call
    now,             \* time.time()
    start_time,      \* local start_time
    end_time,        \* local end_time
    elapsed_time,    \* local elapsed_time
    tmp_files,       \* temporary payload files present on disk
    temp_file,       \* name of the file opened by NamedTemporaryFile
    temp_file_path,  \* local temp_file_path
    procs,           \* transport processes run by the current call, in order
    result,          \* local result (the last CompletedProcess)
    response_data,   \* local response_data
    exc,             \* exception in flight
    unlink_calls,    \* os.unlink calls made by the current call, in order
    outcome,         \* what the current call returned or raised
    probes,          \* login-shell probes and PATH scans made so far
    key_shell,       \* what the login shell does when asked for the credential
    key_env,         \* os.environ.get('GEMINI_API_KEY')
    key_result,      \* what _get_api_key returned or raised
    shell_name,      \* basename of $SHELL
    path_probe,      \* what the login shell does when asked for $PATH
    fs,              \* the filesystem: the state of each directory
    parsed_paths,    \* the PATH entries parsed from the shell, before augmentation
    plamo_path,      \* self.plamo_path
    path_list,       \* self.path_list
    mode,            \* entry point of the current PlamoTranslator call
    shown,           \* dialogs, clipboard writes and console output, in order
    run_result       \* what PlamoTranslator.run returned or raised

\* the variables of the hosted-API session
gemini_vars == <<api_key, pc, calls, text, now, start_time, end_time, elapsed_time,
                 tmp_files, temp_file, temp_file_path, procs, result, response_data,
                 exc, unlink_calls, outcome>>

gemini_vars_but_pc ==
    <<api_key, calls, text, now, start_time, end_time, elapsed_time, tmp_files,
      temp_file, temp_file_path, procs, result, response_data, exc, unlink_calls,
      outcome>>

\* the variables of the resolvers and of the local-CLI session
resolver_vars == <<probes, key_shell, key_env, key_result, shell_name, path_probe, parsed_paths>>
plamo_vars == <<fs, plamo_path, path_list, mode, shown, run_result>>

\* the variables of main (both programs share its code)
VARIABLES
    stdin_isatty,    \* sys.stdin.isatty()
    stdin_data,      \* what sys.stdin.read() returns
    argv,            \* sys.argv[1:]
    input_text,      \* local input_text of main
    run_args,        \* the arguments of the calls of translator.run made by main
    exit_code        \* the exit status of the process

main_vars == <<stdin_isatty, stdin_data, argv, input_text, run_args, exit_code>>

\* the variables of TranslationBenchmark (src/translation_benchmark.py)
VARIABLES
    openai_key,      \* self.openai_key
    gemini_key,      \* self.gemini_key
    which_probe,     \* the result of the "which plamo-translate" shell probe
    bench_op,        \* the translate operation of the last call
    bench_result     \* what that call returned or raised

bench_vars == <<openai_key, gemini_key, which_probe, bench_op, bench_result>>

\* two sessions translating at the same time
VARIABLES
    sess,            \* per session: position, locals and outcome of its call
    tmp_dir          \* the temporary directory both sessions create files in

pair_vars == <<sess, tmp_dir>>

\* TranslationBenchmark.run_benchmark
VARIABLES
    rb               \* position, arguments and locals of run_benchmark, and
                     \* the state of the server process it started

\* the variables outside the sessions: main, the benchmark, the session pair
harness_vars == <<main_vars, bench_vars, pair_vars, rb>>

vars == <<gemini_vars, resolver_vars, plamo_vars, harness_vars>>

NoResult == [status |-> "none", returncode |-> 0, stdout |-> [syntax |-> "text", raw |-> ""], stderr |-> ""]
NoData == [syntax |-> "text", raw |-> ""]

\* what a curl that exits non-zero may have printed
FailStdouts ==
    {NoData,
     [syntax |-> "json",
      doc |-> [candidates |-> <<[content |-> [parts |-> <<[text |-> <<"a">>]>>]]>>]]}

\* what subprocess.run can do: return a CompletedProcess, or raise
TransportResults ==
    {[status |-> "completed", returncode |-> 0, stdout |-> o, stderr |-> ""] : o \in Stdouts}
    \cup {[status |-> "completed", returncode |-> c, stdout |-> o, stderr |-> e] :
             c \in FailCodes, o \in FailStdouts, e \in Stderrs}
    \cup {[status |-> s, returncode |-> 0, stdout |-> NoData, stderr |-> ""] :
             s \in {"TimeoutExpired", "SubprocessError", "FileNotFoundError"}}

\* the exception subprocess.run raises for a result that is not a CompletedProcess
RunException(r) ==
    IF r.status = "FileNotFoundError"
    THEN Exc("FileNotFoundError", <<Lit("[Errno 2] No such file or directory: 'curl'")>>)
    ELSE Exc(r.status, <<Lit("subprocess failure")>>)

curl_cmd_header(key, path) == [variant |-> "header", header_key |-> key, url_key |-> None, data |-> path]
curl_cmd_url_param(key, path) == [variant |-> "url_param", header_key |-> None, url_key |-> key, data |-> path]

Attempt(cmd, r, t0, t1) == [cmd |-> cmd, result |-> r, started |-> t0, finished |-> t1]

Delays == 0..MaxDelay

(***************************************************************************)
(* Decisions of translate_with_api                                         *)
(***************************************************************************)
\* line 59: if not self.api_key
KeyMissing_NoneOnly(k) == k = None
KeyMissing(k) == k = None \/ k = ""

\* line 135: if result.returncode != 0
ShouldFallback_OnApplicationError(r) ==
    \/ r.returncode # 0
    \/ r.stdout.syntax = "json" /\ "error" \in DOMAIN r.stdout.doc
ShouldFallback(r) == r.returncode # 0

\* lines 145-147: the curl error message
CurlErrorMsg_NoDetail(r) == <<LIT_CURL, Code(r.returncode)>>
CurlErrorMsg(r) ==
    <<LIT_CURL, Code(r.returncode)>>
    \o (IF r.stderr # "" THEN <<LIT_DETAIL, Str(r.stderr)>> ELSE <<>>)

\* lines 171-175: the candidates/content/parts path is missing or empty
PathMissing(doc) ==
    \/ "candidates" \notin DOMAIN doc
    \/ doc.candidates = <<>>
    \/ "content" \notin DOMAIN doc.candidates[1]
    \/ "parts" \notin DOMAIN doc.candidates[1].content
    \/ doc.candidates[1].content.parts = <<>>

\* lines 159-186: classification of the output of a zero-exit transport
Classify(data, elapsed) ==
    LET parsed == json_loads(data)
        doc == parsed.value
    IN  IF ~parsed.ok
        THEN Raise(ValueError(<<LIT_BAD_JSON, Raw(data)>>))
        ELSE IF "error" \in DOMAIN doc
        THEN Raise(ValueError(<<LIT_API_ERROR,
                 Str(IF "message" \in DOMAIN doc.error
                     THEN doc.error.message ELSE "unknown error")>>))
        ELSE IF PathMissing(doc)
        THEN Raise(ValueError(MSG_NO_RESULT))
        ELSE IF "text" \notin DOMAIN doc.candidates[1].content.parts[1]
        THEN Raise(Exc("KeyError", <<Lit("'text'")>>))
        ELSE LET translated_text == doc.candidates[1].content.parts[1].text
             IN  IF translated_text = <<>>
                 THEN Raise(ValueError(MSG_EMPTY))
                 ELSE Return(strip(translated_text), elapsed)

\* lines 188-202: the handlers enclosing the body
Handle(e) ==
    IF e.type = "TimeoutExpired" THEN ValueError(MSG_TIMEOUT)
    ELSE IF e.type = "SubprocessError" THEN ValueError(<<LIT_PROCESS>> \o e.msg)
    ELSE ValueError(<<LIT_UNEXPECTED>> \o e.msg)

(***************************************************************************)
(* Credential Resolver: QuickTranslator._get_api_key                       *)
(***************************************************************************)
\* a shell probe that has not been made
NoProbe == [status |-> "none", returncode |-> 0, stdout |-> <<>>]

\* an environment variable: unset, or set to a text
NoEnv == [set |-> FALSE, value |-> <<>>]
EnvValues == {NoEnv, [set |-> TRUE, value |-> <<>>], [set |-> TRUE, value |-> <<"e">>]}

KeyChars == {"k", " "}
KeyTexts == UNION {[1..n -> KeyChars] : n \in 0..MaxKeyLen}

\* what `$SHELL -l -c 'echo $GEMINI_API_KEY'` can do: echo prints the value
\* and a newline (or the shell dies before printing), with any exit status;
\* or subprocess.run raises
KeyShells ==
    {[status |-> "completed", returncode |-> c, stdout |-> o] :
        c \in {0, 1}, o \in {t \o <<"\n">> : t \in KeyTexts} \cup {<<>>}}
    \cup {[status |-> s, returncode |-> 0, stdout |-> <<>>] :
             s \in {"TimeoutExpired", "SubprocessError", "FileNotFoundError"}}

NoKeyResult == [kind |-> "none", none |-> TRUE, value |-> <<>>, exc |-> "None"]
ReturnKey(v) == [kind |-> "return", none |-> FALSE, value |-> v, exc |-> "None"]
ReturnNone == [kind |-> "return", none |-> TRUE, value |-> <<>>, exc |-> "None"]
RaiseKey(e) == [kind |-> "raise", none |-> TRUE, value |-> <<>>, exc |-> e]

\* os.environ.get(name): the value, or None when the variable is unset
environ_get(env) == IF env.set THEN ReturnKey(env.value) ELSE ReturnNone

\* lines 20-33
get_api_key(shell, env) ==
    IF shell.status = "completed"
    THEN LET key == strip(shell.stdout)
         IN  IF key # <<>> THEN ReturnKey(key) ELSE ReturnNone
    ELSE IF shell.status \in {"TimeoutExpired", "SubprocessError"}
    THEN environ_get(env)
    ELSE RaiseKey(shell.status)

(***************************************************************************)
(* Executable Locator: PlamoTranslator._find_plamo_translate               *)
(***************************************************************************)
HomeLocalBin == "/Users/u/.local/bin"      \* os.path.expanduser("~/.local/bin")
important_paths == <<HomeLocalBin, "/opt/homebrew/bin", "/usr/local/bin">>
Dirs == {HomeLocalBin, "/opt/homebrew/bin", "/usr/local/bin", "/usr/bin"}

Range(f) == {f[i] : i \in DOMAIN f}
Reverse(f) == [i \in 1..Len(f) |-> f[Len(f) + 1 - i]]

\* The state of a directory: "absent" (no such directory), "dir" (a directory
\* without plamo-translate), "file" (it holds a plamo-translate that is not
\* executable), "exec" (it holds an executable plamo-translate).
NoFs == [d \in Dirs |-> "absent"]
Filesystems ==
    {f \in [Dirs -> {"absent", "dir", "file", "exec"}] :
        /\ f["/usr/bin"] # "absent"
        /\ \A d \in Range(important_paths) : f[d] # "file"}

isdir(f, d) == f[d] # "absent"                 \* os.path.isdir
is_executable_file(f, d) == f[d] = "exec"      \* os.path.isfile and os.access X_OK

NoPlamoPath == <<>>                             \* plamo_path is None
join(d, name) == <<d, name>>                    \* os.path.join

\* the entries of the login shell's PATH, possibly with empty entries
RawEntries == Dirs \cup {""}
RawPaths == UNION {[1..n -> RawEntries] : n \in 0..MaxPathLen}

\* what the shell prints: fish prints one entry per line (printf "%s\n"),
\* the others print the entries joined by ":" and a newline (echo "$PATH")
RECURSIVE Lines(_)
Lines(es) ==
    IF es = <<>> THEN <<>>
    ELSE (IF Head(es) = "" THEN <<>> ELSE <<Head(es)>>) \o <<"\n">> \o Lines(Tail(es))

RECURSIVE Joined(_)
Joined(es) ==
    IF es = <<>> THEN <<>>
    ELSE (IF Head(es) = "" THEN <<>> ELSE <<Head(es)>>)
         \o (IF Len(es) > 1 THEN <<":">> ELSE <<>>) \o Joined(Tail(es))

PathStdout(name, es) == IF name = "fish" THEN Lines(es) ELSE Joined(es) \o <<"\n">>

PathProbes(name) ==
    {[status |-> "completed", returncode |-> 0, stdout |-> PathStdout(name, es)] :
        es \in RawPaths}
    \cup {[status |-> "completed", returncode |-> 1, stdout |-> <<>>]}
    \cup {[status |-> st, returncode |-> 0, stdout |-> <<>>] :
             st \in {"TimeoutExpired", "SubprocessError", "FileNotFoundError"}}

\* str.split(sep)
RECURSIVE split(_, _)
split(str, sep) ==
    IF \A i \in 1..Len(str) : str[i] # sep THEN <<str>>
    ELSE LET i == CHOOSE k \in 1..Len(str) :
                      str[k] = sep /\ \A j \in 1..(k - 1) : str[j] # sep
         IN  <<SubSeq(str, 1, i - 1)>> \o split(SubSeq(str, i + 1, Len(str)), sep)

\* lines 73, 76: [p.strip() for p in ... if p.strip()]; an entry is one token
RECURSIVE StrippedEntries(_)
StrippedEntries(ps) ==
    IF ps = <<>> THEN <<>>
    ELSE (IF strip(Head(ps)) # <<>> THEN <<strip(Head(ps))[1]>> ELSE <<>>)
         \o StrippedEntries(Tail(ps))

\* lines 66-76: the PATH entries parsed from the output of the shell
parse_path(name, stdout) ==
    LET path_output == strip(stdout)
    IN  IF path_output = <<>> THEN <<>>
        ELSE StrippedEntries(split(path_output, IF name = "fish" THEN "\n" ELSE ":"))

\* lines 97-111: for important_path in reversed(important_paths): insert(0, ...)
RECURSIVE EnsureFrom(_, _, _)
EnsureFrom(i, pl, f) ==
    IF i = 0 THEN pl
    ELSE LET important_path == important_paths[i]
         IN  EnsureFrom(i - 1,
                 IF important_path \notin Range(pl) /\ isdir(f, important_path)
                 THEN <<important_path>> \o pl ELSE pl,
                 f)

\* variants of the loop: another iteration order, a test left out
RECURSIVE InsertMissing(_, _, _, _, _)
InsertMissing(order, pl, f, test_dir, test_member) ==
    IF order = <<>> THEN pl
    ELSE LET p == Head(order)
             add == (test_member => p \notin Range(pl)) /\ (test_dir => isdir(f, p))
         IN  InsertMissing(Tail(order), IF add THEN <<p>> \o pl ELSE pl, f,
                           test_dir, test_member)

ensure_common_paths_NoIsdir(pl, f) ==
    InsertMissing(Reverse(important_paths), pl, f, FALSE, TRUE)
ensure_common_paths_DeclarationOrder(pl, f) ==
    InsertMissing(important_paths, pl, f, TRUE, TRUE)
ensure_common_paths_NoMembership(pl, f) ==
    InsertMissing(Reverse(important_paths), pl, f, TRUE, FALSE)

ensure_common_paths(pl, f) == EnsureFrom(Len(important_paths), pl, f)

\* lines 42-95: the augmented PATH list, or [] on any failure of the probe
get_path_from_shell_AugmentOnFailure(name, probe, f) ==
    IF probe.status # "completed" \/ probe.returncode # 0 \/ strip(probe.stdout) = <<>>
    THEN ensure_common_paths(<<>>, f)
    ELSE ensure_common_paths(parse_path(name, probe.stdout), f)

get_path_from_shell(name, probe, f) ==
    IF probe.status # "completed" THEN <<>>
    ELSE IF probe.returncode # 0 THEN <<>>
    ELSE IF strip(probe.stdout) = <<>> THEN <<>>
    ELSE ensure_common_paths(parse_path(name, probe.stdout), f)

\* lines 35-40: the first directory of the list holding an executable
RECURSIVE scan_path_LastMatch(_, _)
scan_path_LastMatch(pl, f) ==
    IF pl = <<>> THEN NoPlamoPath
    ELSE IF is_executable_file(f, pl[Len(pl)]) THEN join(pl[Len(pl)], "plamo-translate")
    ELSE scan_path_LastMatch(SubSeq(pl, 1, Len(pl) - 1), f)

RECURSIVE scan_path(_, _)
scan_path(pl, f) ==
    IF pl = <<>> THEN NoPlamoPath
    ELSE IF is_executable_file(f, Head(pl)) THEN join(Head(pl), "plamo-translate")
    ELSE scan_path(Tail(pl), f)

\* lines 25-40: (plamo_path, path_list)
search_via_shell(name, probe, f) ==
    LET pl == get_path_from_shell(name, probe, f)
    IN  IF pl = <<>> THEN [plamo_path |-> NoPlamoPath, path_list |-> <<>>]
        ELSE [plamo_path |-> scan_path(pl, f), path_list |-> pl]

\* what PlamoTranslator.run returns or raises
NoRun == [kind |-> "none", value |-> FALSE, exc |-> NoExc]

(***************************************************************************)
(* Initial state: a constructed session, no call made                      *)
(***************************************************************************)
\* no call of translate_with_api made yet
NoCallYet ==
    /\ calls = 0
    /\ text = ""
    /\ now = 0
    /\ start_time = Unset
    /\ end_time = Unset
    /\ elapsed_time = Unset
    /\ tmp_files = {}
    /\ temp_file = NoPath
    /\ temp_file_path = NoPath
    /\ procs = <<>>
    /\ result = NoResult
    /\ response_data = NoData
    /\ exc = NoExc
    /\ unlink_calls = <<>>
    /\ outcome = NoOutcome

\* no credential resolution in progress
NoKeyResolution ==
    /\ key_shell = NoProbe
    /\ key_env = NoEnv
    /\ key_result = NoKeyResult

\* no executable location in progress
NoLocation ==
    /\ shell_name = "sh"
    /\ path_probe = NoProbe
    /\ parsed_paths = <<>>

\* no PlamoTranslator session
NoPlamoSession ==
    /\ fs = NoFs
    /\ plamo_path = NoPlamoPath
    /\ path_list = <<>>
    /\ mode = "none"
    /\ shown = <<>>
    /\ run_result = NoRun

\* main is not running
NoMain ==
    /\ stdin_isatty = TRUE
    /\ stdin_data = <<>>
    /\ argv = <<>>
    /\ input_text = <<>>
    /\ run_args = <<>>
    /\ exit_code = Unset

\* what a translate operation of the benchmark returns or raises
NoBenchResult == [kind |-> "none", none |-> TRUE, value |-> <<>>, elapsed |-> Unset, exc |-> NoExc]
BenchText(t, e) == [kind |-> "return", none |-> FALSE, value |-> t, elapsed |-> e, exc |-> NoExc]
BenchNone(e) == [kind |-> "return", none |-> TRUE, value |-> <<>>, elapsed |-> e, exc |-> NoExc]
BenchRaise(x) == [kind |-> "raise", none |-> TRUE, value |-> <<>>, elapsed |-> Unset, exc |-> x]

\* no benchmark
NoBench ==
    /\ openai_key = None
    /\ gemini_key = None
    /\ which_probe = NoProbe
    /\ bench_op = "none"
    /\ bench_result = NoBenchResult

\* run_benchmark is not running
NoRunBenchmark == rb = <<>>

\* no pair of concurrent sessions
NoPair ==
    /\ sess = <<>>
    /\ tmp_dir = <<>>

\* nothing outside the session is running
NoHarness == NoMain /\ NoBench /\ NoPair /\ NoRunBenchmark

\* a constructed QuickTranslator: the credential was resolved by one probe
Init ==
    /\ NoHarness
    /\ api_key \in ApiKeys
    /\ pc = "idle"
    /\ NoCallYet
    /\ probes = [shell |-> 1, scan |-> 0]
    /\ NoKeyResolution
    /\ NoLocation
    /\ NoPlamoSession

(***************************************************************************)
(* translate_with_api, one action per step of the method                   *)
(***************************************************************************)
\* lines 57-88: entry, credential check, request building, start of the timer.
\* The clock is re-based at each call: only differences of readings are used.
Call ==
    /\ pc = "idle"
    /\ calls < MaxCalls
    /\ calls' = calls + 1
    /\ \E t \in InputTexts : text' = t
    /\ now' = 0
    /\ end_time' = Unset
    /\ elapsed_time' = Unset
    /\ temp_file' = NoPath
    /\ temp_file_path' = NoPath
    /\ procs' = <<>>
    /\ result' = NoResult
    /\ response_data' = NoData
    /\ exc' = NoExc
    /\ unlink_calls' = <<>>
    /\ IF KeyMissing(api_key)
       THEN /\ outcome' = Raise(ValueError(MSG_NO_KEY))
            /\ start_time' = Unset
            /\ pc' = "done"
       ELSE /\ outcome' = NoOutcome
            /\ start_time' = 0
            /\ pc' = "create_temp"
    /\ UNCHANGED <<api_key, tmp_files>>
    /\ UNCHANGED <<resolver_vars, plamo_vars, harness_vars>>

\* line 92: tempfile.NamedTemporaryFile(mode='w', suffix='.json', delete=False)
CreateTemp ==
    /\ pc = "create_temp"
    /\ \/ /\ temp_file' = calls
          /\ tmp_files' = tmp_files \cup {calls}
          /\ pc' = "write_payload"
          /\ UNCHANGED exc
       \/ /\ exc' = Exc("OSError", <<Lit("[Errno 28] No space left on device")>>)
          /\ pc' = "except"
          /\ UNCHANGED <<temp_file, tmp_files>>
    /\ UNCHANGED <<api_key, calls, text, now, start_time, end_time, elapsed_time,
                   temp_file_path, procs, result, response_data, unlink_calls, outcome>>
    /\ UNCHANGED <<resolver_vars, plamo_vars, harness_vars>>

\* lines 93-94: json.dump into the file, leaving the with-block, binding
\* temp_file_path.  A failure leaves the with-block before line 96's try.
WritePayload ==
    /\ pc = "write_payload"
    /\ \E d \in Delays : now' = now + d
    /\ \/ /\ temp_file_path' = temp_file
          /\ pc' = "run_header"
          /\ UNCHANGED exc
       \/ /\ exc' = Exc("OSError", <<Lit("[Errno 28] No space left on device")>>)
          /\ pc' = "except"
          /\ UNCHANGED temp_file_path
    /\ UNCHANGED <<api_key, calls, text, start_time, end_time, elapsed_time,
                   tmp_files, temp_file, procs, result, response_data,
                   unlink_calls, outcome>>
    /\ UNCHANGED <<resolver_vars, plamo_vars, harness_vars>>

\* lines 123-132: the header transport, then the end of the timer
RunHeader ==
    /\ pc = "run_header"
    /\ \E r \in TransportResults, d \in Delays :
         /\ now' = now + d
         /\ procs' = Append(procs,
                Attempt(curl_cmd_header(api_key, temp_file_path), r, now, now + d))
         /\ IF r.status = "completed"
            THEN /\ result' = r
                 /\ end_time' = now + d
                 /\ elapsed_time' = (now + d) - start_time
                 /\ pc' = "check_returncode"
                 /\ UNCHANGED exc
            ELSE /\ exc' = RunException(r)
                 /\ pc' = "finally"
                 /\ UNCHANGED <<result, end_time, elapsed_time>>
    /\ UNCHANGED <<api_key, calls, text, start_time, tmp_files, temp_file,
                   temp_file_path, response_data, unlink_calls, outcome>>
    /\ UNCHANGED <<resolver_vars, plamo_vars, harness_vars>>

\* lines 135, 150: the header transport exited zero
NoFallback ==
    /\ pc = "check_returncode"
    /\ ~ShouldFallback(result)
    /\ response_data' = result.stdout
    /\ pc' = "finally"
    /\ UNCHANGED <<api_key, calls, text, now, start_time, end_time, elapsed_time,
                   tmp_files, temp_file, temp_file_path, procs, result, exc,
                   unlink_calls, outcome>>
    /\ UNCHANGED <<resolver_vars, plamo_vars, harness_vars>>

\* lines 135-150: the header transport exited non-zero, the URL-parameter
\* transport is run
RunUrlParam_StaleResult ==
    /\ pc = "check_returncode"
    /\ ShouldFallback(result)
    /\ \E r \in TransportResults, d \in Delays :
         /\ now' = now + d
         /\ procs' = Append(procs,
                Attempt(curl_cmd_url_param(api_key, temp_file_path), r, now, now + d))
         /\ IF r.status = "completed"
            THEN /\ result' = result
                 /\ IF result.returncode # 0
                    THEN /\ exc' = ValueError(CurlErrorMsg(result))
                         /\ UNCHANGED response_data
                    ELSE /\ response_data' = result.stdout
                         /\ UNCHANGED exc
            ELSE /\ exc' = RunException(r)
                 /\ UNCHANGED <<result, response_data>>
    /\ pc' = "finally"
    /\ UNCHANGED <<api_key, calls, text, start_time, end_time, elapsed_time,
                   tmp_files, temp_file, temp_file_path, unlink_calls, outcome>>
    /\ UNCHANGED <<resolver_vars, plamo_vars, harness_vars>>

RunUrlParam ==
    /\ pc = "check_returncode"
    /\ ShouldFallback(result)
    /\ \E r \in TransportResults, d \in Delays :
         /\ now' = now + d
         /\ procs' = Append(procs,
                Attempt(curl_cmd_url_param(api_key, temp_file_path), r, now, now + d))
         /\ IF r.status = "completed"
            THEN /\ result' = r
                 /\ IF r.returncode # 0
                    THEN /\ exc' = ValueError(CurlErrorMsg(r))
                         /\ UNCHANGED response_data
                    ELSE /\ response_data' = r.stdout
                         /\ UNCHANGED exc
            ELSE /\ exc' = RunException(r)
                 /\ UNCHANGED <<result, response_data>>
    /\ pc' = "finally"
    /\ UNCHANGED <<api_key, calls, text, start_time, end_time, elapsed_time,
                   tmp_files, temp_file, temp_file_path, unlink_calls, outcome>>
    /\ UNCHANGED <<resolver_vars, plamo_vars, harness_vars>>

\* lines 152-157: finally: os.unlink(temp_file_path), an OSError is swallowed
Unlink_Propagate ==
    /\ pc = "finally"
    /\ \E ok \in BOOLEAN :
         /\ unlink_calls' = Append(unlink_calls, [path |-> temp_file_path, ok |-> ok])
         /\ tmp_files' = IF ok THEN tmp_files \ {temp_file_path} ELSE tmp_files
         /\ exc' = IF ok THEN exc
                   ELSE Exc("OSError", <<Lit("[Errno 1] Operation not permitted")>>)
         /\ pc' = IF ok /\ exc = NoExc THEN "parse" ELSE "except"
    /\ UNCHANGED <<api_key, calls, text, now, start_time, end_time, elapsed_time,
                   temp_file, temp_file_path, procs, result, response_data, outcome>>
    /\ UNCHANGED <<resolver_vars, plamo_vars, harness_vars>>

Unlink ==
    /\ pc = "finally"
    /\ \E ok \in BOOLEAN :
         /\ unlink_calls' = Append(unlink_calls, [path |-> temp_file_path, ok |-> ok])
         /\ tmp_files' = IF ok THEN tmp_files \ {temp_file_path} ELSE tmp_files
    /\ pc' = IF exc = NoExc THEN "parse" ELSE "except"
    /\ UNCHANGED <<api_key, calls, text, now, start_time, end_time, elapsed_time,
                   temp_file, temp_file_path, procs, result, response_data, exc,
                   outcome>>
    /\ UNCHANGED <<resolver_vars, plamo_vars, harness_vars>>

\* lines 159-186: parse and classify the response, return on success
Parse ==
    /\ pc = "parse"
    /\ \E d \in Delays : now' = now + d
    /\ LET c == Classify(response_data, elapsed_time)
       IN  IF c.kind = "return"
           THEN /\ outcome' = c
                /\ pc' = "done"
                /\ UNCHANGED exc
           ELSE /\ exc' = c.exc
                /\ pc' = "except"
                /\ UNCHANGED outcome
    /\ UNCHANGED <<api_key, calls, text, start_time, end_time, elapsed_time,
                   tmp_files, temp_file, temp_file_path, procs, result,
                   response_data, unlink_calls>>
    /\ UNCHANGED <<resolver_vars, plamo_vars, harness_vars>>

\* lines 188-202: the handler that matches the exception in flight
Except ==
    /\ pc = "except"
    /\ end_time' = now
    /\ elapsed_time' = now - start_time
    /\ outcome' = Raise(Handle(exc))
    /\ exc' = NoExc
    /\ pc' = "done"
    /\ UNCHANGED <<api_key, calls, text, now, start_time, tmp_files, temp_file,
                   temp_file_path, procs, result, response_data, unlink_calls>>
    /\ UNCHANGED <<resolver_vars, plamo_vars, harness_vars>>

\* the caller takes the outcome; the session is ready for its next call
Finish ==
    /\ pc = "done"
    /\ calls < MaxCalls
    /\ pc' = "idle"
    /\ UNCHANGED <<api_key, calls, text, now, start_time, end_time, elapsed_time,
                   tmp_files, temp_file, temp_file_path, procs, result,
                   response_data, exc, unlink_calls, outcome>>
    /\ UNCHANGED <<resolver_vars, plamo_vars, harness_vars>>

Next ==
    \/ Call
    \/ CreateTemp
    \/ WritePayload
    \/ RunHeader
    \/ NoFallback
    \/ RunUrlParam
    \/ Unlink
    \/ Parse
    \/ Except
    \/ Finish

Spec == Init /\ [][Next]_vars

(***************************************************************************)
(* Properties of translate_with_api                                        *)
(***************************************************************************)
Done == pc = "done"
Ran(i) == i <= Len(procs)
ExitedZero(i) ==
    Ran(i) /\ procs[i].result.status = "completed" /\ procs[i].result.returncode = 0
ExitedNonZero(i) ==
    Ran(i) /\ procs[i].result.status = "completed" /\ procs[i].result.returncode # 0
Raised == outcome.kind = "raise"
Returned == outcome.kind = "return"
RaisedWith(frag) == Raised /\ Contains(outcome.exc.msg, frag)

\* a well-formed success payload carrying the text t
SuccessPayload(t) ==
    [syntax |-> "json",
     doc |-> [candidates |-> <<[content |-> [parts |-> <<[text |-> t]>>]]>>]]

\* C1: if the header transport (Variant A) exits with status zero, the
\* URL-parameter transport (Variant B) is never run in that call, whatever
\* the response body is: exactly one transport process has been run.
C1_NoFallbackAfterZeroExit ==
    (Ran(1) /\ procs[1].cmd.variant = "header" /\ ExitedZero(1))
        => /\ Len(procs) = 1
           /\ \A i \in 1..Len(procs) : procs[i].cmd.variant # "url_param"

C1_Witness ==
    /\ Done
    /\ ExitedZero(1)
    /\ Len(procs) = 1
    /\ RaisedWith(LIT_API_ERROR)

\* C2: when Variant A and Variant B both exit non-zero, the call fails with
\* the curl error carrying the exit code and the standard-error text of the
\* second attempt, never those of the first, after exactly two processes.
C2_BothFailCarriesSecond ==
    (Done /\ ExitedNonZero(1) /\ ExitedNonZero(2))
        => LET a == procs[1].result
               b == procs[2].result
           IN  /\ Len(procs) = 2
               /\ Raised
               /\ outcome.exc.type = "ValueError"
               /\ RaisedWith(LIT_CURL)
               /\ RaisedWith(Code(b.returncode))
               /\ b.stderr # "" => RaisedWith(Str(b.stderr))
               /\ a.returncode # b.returncode => ~RaisedWith(Code(a.returncode))
               /\ a.stderr # b.stderr => ~RaisedWith(Str(a.stderr))

C2_Witness ==
    /\ Done
    /\ ExitedNonZero(1)
    /\ ExitedNonZero(2)
    /\ procs[1].result.returncode = 1
    /\ procs[1].result.stderr = "Auth error"
    /\ procs[2].result.returncode = 7
    /\ procs[2].result.stderr = "Connection failed"
    /\ RaisedWith(Code(7))

\* C3: when Variant A exits non-zero, Variant B (same endpoint, credential as
\* query parameter, same payload file) is run exactly once, immediately after
\* A; if B exits zero the outcome is decided by B's standard output only, and
\* a well-formed success payload from B yields Success with B's trimmed text.
C3_FallbackOnceThenClassifySecond ==
    /\ (ExitedNonZero(1) /\ pc # "check_returncode")
          => /\ Len(procs) = 2
             /\ procs[1].cmd = curl_cmd_header(api_key, temp_file_path)
             /\ procs[2].cmd = curl_cmd_url_param(api_key, procs[1].cmd.data)
             /\ procs[2].started = procs[1].finished
    /\ (ExitedNonZero(1) /\ pc = "check_returncode")
          => /\ Len(procs) = 1
             /\ unlink_calls = <<>>
    /\ (Done /\ ExitedNonZero(1) /\ ExitedZero(2))
          => LET c == Classify(procs[2].result.stdout, elapsed_time)
             IN  /\ c.kind = "return" => outcome = c
                 /\ c.kind = "raise" => outcome = Raise(Handle(c.exc))
                 /\ \A t \in Texts :
                      (procs[2].result.stdout = SuccessPayload(t) /\ strip(t) # <<>>)
                          => (Returned /\ outcome.text = strip(t))

C3_Witness ==
    /\ Done
    /\ ExitedNonZero(1)
    /\ ExitedZero(2)
    /\ procs[1].result.stdout = SuccessPayload(<<"a">>)
    /\ procs[2].result.stdout = SuccessPayload(<<" ", "a">>)
    /\ Returned
    /\ outcome.text = <<"a">>

\* the transport result that determines the outcome: the last one run
Last == procs[Len(procs)].result
DecidedByOutput ==
    Done /\ Ran(1) /\ Last.status = "completed" /\ Last.returncode = 0
HasErrorField(o) == o.syntax = "json" /\ "error" \in DOMAIN o.doc
HasTextField(o) ==
    /\ o.syntax = "json"
    /\ ~PathMissing(o.doc)
    /\ "text" \in DOMAIN o.doc.candidates[1].content.parts[1]
TextOf(o) == o.doc.candidates[1].content.parts[1].text

\* C4: the timer is started immediately before the first transport attempt
\* and stopped immediately after the transport call that determines the
\* outcome, so the elapsed time returned with Success runs from the start of
\* the first attempt to the completion of the last one (Variant B when A
\* failed) and covers no request building and no response parsing.
C4_TimerCoversDecidingTransport ==
    (Done /\ Returned)
        => /\ start_time = procs[1].started
           /\ start_time + outcome.elapsed = procs[Len(procs)].finished

\* C5: the text of every Success is non-empty after trimming; a zero-exit,
\* well-formed response whose result text is only whitespace yields the
\* empty-result failure, never a Success carrying the empty string.
C5_SuccessTextNonEmpty ==
    /\ (Done /\ Returned) => strip(outcome.text) # <<>>
    /\ (DecidedByOutput /\ ~HasErrorField(Last.stdout) /\ HasTextField(Last.stdout)
          /\ strip(TextOf(Last.stdout)) = <<>>)
          => RaisedWith(MSG_EMPTY[1])

\* C6: after a zero-exit transport the outcome is decided by the first
\* matching check, in this order: (1) not valid JSON -> malformed response,
\* the message contains the raw output; (2) 'error' field -> application
\* error with the provider's message; (3) candidates/content/parts path
\* missing or empty -> no result; (4) extracted text empty -> empty result;
\* (5) otherwise Success with the trimmed text.
C6_ClassificationOrder ==
    DecidedByOutput
        => LET o == Last.stdout
           IN  IF o.syntax # "json"
               THEN RaisedWith(LIT_BAD_JSON) /\ RaisedWith(Raw(o))
               ELSE IF "error" \in DOMAIN o.doc
               THEN /\ RaisedWith(LIT_API_ERROR)
                    /\ "message" \in DOMAIN o.doc.error
                          => RaisedWith(Str(o.doc.error.message))
               ELSE IF PathMissing(o.doc)
               THEN RaisedWith(MSG_NO_RESULT[1])
               ELSE IF HasTextField(o) /\ TextOf(o) = <<>>
               THEN RaisedWith(MSG_EMPTY[1])
               ELSE /\ Returned
                    /\ HasTextField(o) => outcome.text = strip(TextOf(o))

\* C7: every parsed response without an error field that lacks the expected
\* result path yields the NoResult failure: missing candidates, empty
\* candidates, missing content or parts, empty parts, and a first part
\* without a nested 'text' field.
C7_MissingPathIsNoResult ==
    (DecidedByOutput /\ Last.stdout.syntax = "json" /\ ~HasErrorField(Last.stdout)
       /\ ~HasTextField(Last.stdout))
        => RaisedWith(MSG_NO_RESULT[1])

\* C8: when the session holds no credential (api_key is None or empty), the
\* call fails with the missing-credential error before any side effect: no
\* transport process, no temporary payload file, the timer not started.
C8_MissingCredentialNoSideEffect ==
    (api_key \in {None, ""} /\ calls >= 1)
        => /\ pc \in {"done", "idle"}
           /\ outcome = Raise(ValueError(MSG_NO_KEY))
           /\ procs = <<>>
           /\ temp_file = NoPath
           /\ tmp_files = {}
           /\ unlink_calls = <<>>
           /\ start_time = Unset

C8_Witness ==
    /\ api_key = ""
    /\ Done
    /\ calls = 1
    /\ outcome = Raise(ValueError(MSG_NO_KEY))

\* C9: every call that created a temporary payload file has attempted to
\* remove that file, exactly once, by the time it returns or raises, on
\* every exit path (success, non-zero exits, timeout, process error, failure
\* while writing the payload).
C9_TempFileRemovalAttempted ==
    (Done /\ temp_file # NoPath)
        => /\ Len(unlink_calls) = 1
           /\ unlink_calls[1].path = temp_file

\* C10: a failure to delete the temporary payload file never changes the
\* outcome: what the call returns or raises is the function of the
\* transport results below, the same whether os.unlink failed or succeeded.
OutcomeOfTransport ==
    IF Last.status # "completed"
    THEN Raise(Handle(RunException(Last)))
    ELSE IF Last.returncode # 0
    THEN Raise(Handle(ValueError(CurlErrorMsg(Last))))
    ELSE LET c == Classify(Last.stdout, procs[1].finished - start_time)
         IN  IF c.kind = "return" THEN c ELSE Raise(Handle(c.exc))

C10_UnlinkFailureKeepsOutcome ==
    (Done /\ unlink_calls # <<>>)
        => /\ Len(unlink_calls) = 1
           /\ outcome = OutcomeOfTransport

C10_Witness ==
    /\ Done
    /\ unlink_calls # <<>>
    /\ ~unlink_calls[1].ok
    /\ temp_file_path \in tmp_files
    /\ Returned
    /\ outcome.text = <<"a">>

(***************************************************************************)
(* Construction of a QuickTranslator: the Credential Resolver              *)
(***************************************************************************)
KeyInit ==
    /\ NoHarness
    /\ pc = "key_start"
    /\ api_key = None
    /\ NoCallYet
    /\ probes = [shell |-> 0, scan |-> 0]
    /\ key_shell \in KeyShells
    /\ key_env \in EnvValues
    /\ key_result = NoKeyResult
    /\ NoLocation
    /\ NoPlamoSession

\* lines 16-33: __init__ calls _get_api_key
ResolveKey ==
    /\ pc = "key_start"
    /\ key_result' = get_api_key(key_shell, key_env)
    /\ probes' = [probes EXCEPT !.shell = @ + 1]
    /\ pc' = "key_done"
    /\ UNCHANGED <<api_key, calls, text, now, start_time, end_time, elapsed_time,
                   tmp_files, temp_file, temp_file_path, procs, result,
                   response_data, exc, unlink_calls, outcome>>
    /\ UNCHANGED <<key_shell, key_env, shell_name, path_probe, parsed_paths, plamo_vars>>
    /\ UNCHANGED harness_vars

KeyNext == ResolveKey

SpecKey == KeyInit /\ [][KeyNext]_vars

\* the login-shell probe yields nothing: it failed, or printed only whitespace
ShellYieldsNothing ==
    key_shell.status # "completed" \/ strip(key_shell.stdout) = <<>>
EnvYieldsNothing == ~key_env.set \/ key_env.value = <<>>
KeyResolved == pc = "key_done"

\* C13: _get_api_key falls back to the process environment in every case
\* where the login-shell probe yields nothing (spawn error, other process
\* error, timeout, empty output); it returns None only if both the shell and
\* the environment yield nothing, and it never raises.
C13_FallbackWheneverShellYieldsNothing ==
    KeyResolved
        => /\ key_result.kind = "return"
           /\ (ShellYieldsNothing /\ ~EnvYieldsNothing)
                 => (~key_result.none /\ key_result.value = key_env.value)
           /\ (~ShellYieldsNothing)
                 => (~key_result.none /\ key_result.value = strip(key_shell.stdout))
           /\ (key_result.none \/ key_result.value = <<>>)
                 => (ShellYieldsNothing /\ EnvYieldsNothing)

(***************************************************************************)
(* Construction of a PlamoTranslator: the Executable Locator               *)
(***************************************************************************)
LocatorInit ==
    /\ NoHarness
    /\ pc = "loc_start"
    /\ api_key = None
    /\ NoCallYet
    /\ probes = [shell |-> 0, scan |-> 0]
    /\ NoKeyResolution
    /\ shell_name \in {"fish", "zsh"}
    /\ path_probe \in PathProbes(shell_name)
    /\ parsed_paths = <<>>
    /\ fs \in Filesystems
    /\ plamo_path = NoPlamoPath
    /\ path_list = <<>>
    /\ mode = "none"
    /\ shown = <<>>
    /\ run_result = NoRun

\* the probe gave an output the locator goes on with (lines 63-68)
ProbeUsable ==
    /\ path_probe.status = "completed"
    /\ path_probe.returncode = 0
    /\ strip(path_probe.stdout) # <<>>

\* lines 79-86: the two debug lines _get_path_from_shell prints to stderr
LIT_DEBUG_ADDED == Lit("debug: number of important paths added: ")
LIT_DEBUG_COUNT == Lit("debug: final number of PATH entries: ")
debug_prints(original_count, final_count) ==
    (IF final_count > original_count
     THEN <<[via |-> "stderr", title |-> "",
             msg |-> <<LIT_DEBUG_ADDED, Code(final_count - original_count)>>]>>
     ELSE <<>>)
    \o <<[via |-> "stderr", title |-> "", msg |-> <<LIT_DEBUG_COUNT, Code(final_count)>>]>>

\* line 30: path_list = self._get_path_from_shell(shell_path, shell_name)
GetPathFromShell ==
    /\ pc = "loc_start"
    /\ shown' = IF ProbeUsable
                THEN debug_prints(Len(parse_path(shell_name, path_probe.stdout)),
                                  Len(get_path_from_shell(shell_name, path_probe, fs)))
                ELSE <<>>
    /\ parsed_paths' = IF ProbeUsable THEN parse_path(shell_name, path_probe.stdout)
                       ELSE <<>>
    /\ path_list' = get_path_from_shell(shell_name, path_probe, fs)
    /\ probes' = [probes EXCEPT !.shell = @ + 1]
    /\ pc' = "loc_scan"
    /\ UNCHANGED <<gemini_vars_but_pc, key_shell, key_env, key_result, shell_name,
                   path_probe, fs, plamo_path, mode, run_result>>
    /\ UNCHANGED harness_vars

\* lines 31-40 and line 13: the scan, then the assignment of the two fields
SearchViaShell ==
    /\ pc = "loc_scan"
    /\ IF path_list = <<>>
       THEN /\ plamo_path' = NoPlamoPath
            /\ UNCHANGED probes
       ELSE /\ plamo_path' = scan_path(path_list, fs)
            /\ probes' = [probes EXCEPT !.scan = @ + 1]
    /\ pc' = "loc_done"
    /\ UNCHANGED <<gemini_vars_but_pc, key_shell, key_env, key_result, shell_name,
                   path_probe, parsed_paths, fs, path_list, mode, shown, run_result>>
    /\ UNCHANGED harness_vars

LocatorNext == GetPathFromShell \/ SearchViaShell

SpecLocator == LocatorInit /\ [][LocatorNext]_vars

Located == pc = "loc_done"
Augmented == pc \in {"loc_scan", "loc_done"} /\ ProbeUsable
Positions(list, d) == {i \in 1..Len(list) : list[i] = d}
Prepended == Len(path_list) - Len(parsed_paths)
\* the important directories the augmentation has to add
ToAdd == {d \in Range(important_paths) : isdir(fs, d) /\ d \notin Range(parsed_paths)}
DeclaredAt(d) == CHOOSE i \in 1..Len(important_paths) : important_paths[i] = d
PositionOf(d) == CHOOSE i \in 1..Len(path_list) : path_list[i] = d

\* C15: _search_via_shell scans the augmented list in order and returns the
\* path in the first directory holding an executable plamo-translate: no
\* earlier directory holds one, a later match never wins; the second
\* component is the full augmented list, found or not.
C15_FirstMatchWinsFullList ==
    Located
        => /\ path_list = IF ProbeUsable THEN ensure_common_paths(parsed_paths, fs)
                          ELSE <<>>
           /\ IF plamo_path # NoPlamoPath
              THEN \E i \in 1..Len(path_list) :
                      /\ plamo_path = join(path_list[i], "plamo-translate")
                      /\ fs[path_list[i]] = "exec"
                      /\ \A j \in 1..(i - 1) : fs[path_list[j]] # "exec"
              ELSE \A i \in 1..Len(path_list) : fs[path_list[i]] # "exec"

C15_Witness ==
    /\ Located
    /\ Len(path_list) >= 3
    /\ fs[path_list[1]] = "file"
    /\ fs[path_list[2]] = "exec"
    /\ fs[path_list[3]] = "exec"
    /\ path_list[2] # path_list[3]
    /\ plamo_path = join(path_list[2], "plamo-translate")

C16_AugmentationPrepends ==
    Augmented
        => /\ Prepended >= 0
           /\ SubSeq(path_list, Prepended + 1, Len(path_list)) = parsed_paths
           /\ \A i \in 1..Prepended : path_list[i] \in ToAdd
           /\ \A d \in ToAdd :
                 /\ Cardinality(Positions(path_list, d)) = 1
                 /\ \E i \in 1..Prepended : path_list[i] = d
           /\ \A d \in Range(important_paths) :
                 (~isdir(fs, d) /\ d \notin Range(parsed_paths))
                     => d \notin Range(path_list)

C16_Witness ==
    /\ Augmented
    /\ parsed_paths = <<"/usr/bin", "/opt/homebrew/bin">>
    /\ fs["/usr/local/bin"] = "dir"
    /\ fs[HomeLocalBin] = "absent"
    /\ path_list = <<"/usr/local/bin", "/usr/bin", "/opt/homebrew/bin">>

\* C17 (as claimed): when several important directories are prepended, the
\* later-declared ones end up first in the returned list.
C17_LaterDeclaredFirst ==
    Augmented
        => \A d, e \in ToAdd :
              DeclaredAt(d) < DeclaredAt(e) => PositionOf(e) < PositionOf(d)

\* C17 (amended): when several important directories are prepended, they
\* keep their declaration order: the earlier-declared ones end up first
\* (~/.local/bin, then /opt/homebrew/bin, then /usr/local/bin).
C17_DeclarationOrderKept ==
    Augmented
        => \A d, e \in ToAdd :
              DeclaredAt(d) < DeclaredAt(e) => PositionOf(d) < PositionOf(e)

C17_Witness ==
    /\ Augmented
    /\ parsed_paths = <<"/usr/bin">>
    /\ ToAdd = Range(important_paths)
    /\ path_list = important_paths \o <<"/usr/bin">>

\* C18: _ensure_common_paths is idempotent: a list that already contains
\* every important directory is returned as it is, and applying the
\* operation to its own result changes nothing.
C18_AugmentationIdempotent ==
    Augmented
        => /\ Range(important_paths) \subseteq Range(parsed_paths)
                 => path_list = parsed_paths
           /\ ensure_common_paths(path_list, fs) = path_list

C18_Witness ==
    /\ Augmented
    /\ parsed_paths = <<"/usr/local/bin", HomeLocalBin, "/opt/homebrew/bin">>
    /\ \A d \in Range(important_paths) : isdir(fs, d)
    /\ path_list = parsed_paths

(***************************************************************************)
(* PlamoTranslator: translate_with_plamo_cli and run                       *)
(* (src/translate_plamo.py).  The session reuses the call variables of the *)
(* hosted session (text, clock, procs, result, exc, outcome); its program  *)
(* counter takes the labels "plamo_...".                                   *)
(***************************************************************************)
MSG_PLAMO_NOT_FOUND == <<Lit("plamo-translate not found")>>
MSG_PLAMO_TIMEOUT == <<Lit("Timeout error: the run of plamo-translate timed out")>>
MSG_NO_TEXT == <<Lit("No text selected")>>
LIT_PLAMO_ERROR == Lit("plamo-translate error: ")
LIT_RUN_UNEXPECTED == Lit("An unexpected error occurred: ")
LIT_SHELL == Lit("shell: ")
LIT_PATH_COUNT == Lit("obtained $PATH, number of entries: ")
LIT_PATH_FAILED == Lit("could not obtain $PATH")
LIT_TIMES == Lit("plamo-server time, total time")

PlamoStderrs == {"", "model not loaded"}

\* what subprocess.run([plamo_path, "--input", text]) can do once spawned
PlamoResults ==
    {[status |-> "completed", returncode |-> 0, stdout |-> o, stderr |-> ""] : o \in Texts}
    \cup {[status |-> "completed", returncode |-> 1, stdout |-> o, stderr |-> e] :
             o \in {<<>>, <<"a">>}, e \in PlamoStderrs}
    \cup {[status |-> st, returncode |-> 0, stdout |-> <<>>, stderr |-> ""] :
             st \in {"TimeoutExpired", "SubprocessError"}}

\* the spawn itself fails when the path no longer names an executable file
SpawnFailure(f, path) ==
    [status |-> IF f[path[1]] = "file" THEN "PermissionError" ELSE "FileNotFoundError",
     returncode |-> 0, stdout |-> <<>>, stderr |-> ""]

PlamoOutcomes(f, path) ==
    IF is_executable_file(f, path[1]) THEN PlamoResults ELSE {SpawnFailure(f, path)}

PlamoRunException(r) ==
    IF r.status = "FileNotFoundError"
    THEN Exc("FileNotFoundError", <<Lit("[Errno 2] No such file or directory: 'plamo-translate'")>>)
    ELSE IF r.status = "PermissionError"
    THEN Exc("PermissionError", <<Lit("[Errno 13] Permission denied: 'plamo-translate'")>>)
    ELSE Exc(r.status, <<Lit("subprocess failure")>>)

plamo_cmd(path, t) == <<path, "--input", t>>

\* line 174: the path the session holds is used as it is, found at
\* construction; no scan of the directories precedes the invocation
invoked_path_Rescan(path, pl, f) ==
    IF scan_path(pl, f) # NoPlamoPath THEN scan_path(pl, f) ELSE path
invoked_path(path, pl, f) == path

\* line 186: f"plamo-translateエラー: {result.stderr or result.stdout}"
PlamoErrorMsg(r) ==
    <<LIT_PLAMO_ERROR, IF r.stderr # "" THEN Str(r.stderr) ELSE Txt(r.stdout)>>

\* lines 184-194: the classification of a completed run
PlamoClassify_NoTrim(r, elapsed) ==
    IF r.returncode # 0 THEN Raise(ValueError(PlamoErrorMsg(r)))
    ELSE IF r.stdout = <<>> THEN Raise(ValueError(MSG_EMPTY))
    ELSE Return(r.stdout, elapsed)

PlamoClassify(r, elapsed) ==
    IF r.returncode # 0 THEN Raise(ValueError(PlamoErrorMsg(r)))
    ELSE LET translated_text == strip(r.stdout)
         IN  IF translated_text = <<>> THEN Raise(ValueError(MSG_EMPTY))
             ELSE Return(translated_text, elapsed)

\* lines 196-212: the three handlers of translate_with_plamo_cli
PlamoHandle_TimeoutAsProcessError(e) ==
    IF e.type \in {"TimeoutExpired", "SubprocessError"}
    THEN ValueError(<<LIT_PROCESS>> \o e.msg)
    ELSE ValueError(<<LIT_UNEXPECTED>> \o e.msg)

PlamoHandle(e) ==
    IF e.type = "TimeoutExpired" THEN ValueError(MSG_PLAMO_TIMEOUT)
    ELSE IF e.type = "SubprocessError" THEN ValueError(<<LIT_PROCESS>> \o e.msg)
    ELSE ValueError(<<LIT_UNEXPECTED>> \o e.msg)

\* lines 119-126: osascript shows the dialog, or subprocess.run raises; only
\* a SubprocessError is caught (the message is printed instead)
DialogOutcomes == {"shown", "SubprocessError", "OSError"}
OsascriptError == Exc("FileNotFoundError", <<Lit("[Errno 2] No such file or directory: 'osascript'")>>)
Entry(via, title, msg) == [via |-> via, title |-> title, msg |-> msg]
show_dialog(log, d, title, msg) ==
    IF d = "shown" THEN Append(log, Entry("dialog", title, msg))
    ELSE IF d = "SubprocessError" THEN Append(log, Entry("stdout", title, msg))
    ELSE log

\* lines 135-160: the not-found message with the searched directories
PathDisplay(pl) == [i \in 1..Len(pl) |-> Str(pl[i])]
NotFoundMsg(shell, pl) ==
    MSG_PLAMO_NOT_FOUND \o <<LIT_SHELL, Str(shell)>>
        \o (IF pl # <<>> THEN <<LIT_PATH_COUNT, Code(Len(pl))>> \o PathDisplay(pl)
            ELSE <<LIT_PATH_FAILED>>)
show_plamo_not_found_error(log, d, shell, pl) ==
    LET error_msg == NotFoundMsg(shell, pl)
        after == show_dialog(log, d, "Error", error_msg)
    IN  IF d = "OSError" THEN after
        ELSE Append(after, Entry("stderr", "Error", error_msg))

RunReturn(b) == [kind |-> "return", value |-> b, exc |-> NoExc]
RunRaise(e) == [kind |-> "raise", value |-> FALSE, exc |-> e]

\* the sessions the model constructs: a colon-separated login shell, the
\* two directories a plamo-translate is usually installed in
SessionFilesystems ==
    {f \in Filesystems : f[HomeLocalBin] = "absent" /\ f["/opt/homebrew/bin"] = "absent"}
SessionPaths == {<<>>, <<"/usr/bin">>, <<"/usr/local/bin", "/usr/bin">>}
SessionProbes ==
    {[status |-> "completed", returncode |-> 0, stdout |-> PathStdout("zsh", es)] :
        es \in SessionPaths}
    \cup {[status |-> "TimeoutExpired", returncode |-> 0, stdout |-> <<>>]}

\* lines 11-13: a constructed PlamoTranslator
PlamoInit ==
    /\ NoHarness
    /\ pc = "plamo_idle"
    /\ api_key = None
    /\ NoCallYet
    /\ NoKeyResolution
    /\ shell_name = "zsh"
    /\ path_probe \in SessionProbes
    /\ fs \in SessionFilesystems
    /\ parsed_paths = IF ProbeUsable THEN parse_path(shell_name, path_probe.stdout)
                      ELSE <<>>
    /\ LET found == search_via_shell(shell_name, path_probe, fs)
       IN  /\ plamo_path = found.plamo_path
           /\ path_list = found.path_list
           /\ probes = [shell |-> 1, scan |-> IF found.path_list = <<>> THEN 0 ELSE 1]
    /\ mode = "none"
    /\ shown = <<>>
    /\ run_result = NoRun

\* what no step of a PlamoTranslator call touches
plamo_frame ==
    <<api_key, tmp_files, temp_file, temp_file_path, response_data, unlink_calls,
      resolver_vars, harness_vars>>

\* the locals of a call that has just been entered
PlamoEnter(m, t) ==
    /\ calls' = calls + 1
    /\ mode' = m
    /\ text' = t
    /\ now' = 0
    /\ start_time' = Unset
    /\ end_time' = Unset
    /\ elapsed_time' = Unset
    /\ procs' = <<>>
    /\ result' = NoResult
    /\ exc' = NoExc
    /\ outcome' = NoOutcome

\* lines 162-169: a direct call of translate_with_plamo_cli
PlamoTranslateCall ==
    /\ pc = "plamo_idle"
    /\ calls < MaxCalls
    /\ \E t \in InputTexts : PlamoEnter("direct", t)
    /\ shown' = <<>>
    /\ run_result' = NoRun
    /\ pc' = IF plamo_path = NoPlamoPath THEN "plamo_not_found" ELSE "plamo_start"
    /\ UNCHANGED <<fs, plamo_path, path_list, plamo_frame>>

\* lines 214-227: a call of run: the empty-text check, the not-found check,
\* then the call of translate_with_plamo_cli
PlamoRunCall ==
    /\ pc = "plamo_idle"
    /\ calls < MaxCalls
    /\ \E t \in InputTexts \cup {""} :
         /\ PlamoEnter("run", t)
         /\ IF t = ""
            THEN \E d \in DialogOutcomes :
                    /\ shown' = show_dialog(<<>>, d, "Error", MSG_NO_TEXT)
                    /\ run_result' = IF d = "OSError" THEN RunRaise(OsascriptError)
                                     ELSE RunReturn(FALSE)
                    /\ pc' = "plamo_run_done"
            ELSE /\ shown' = <<>>
                 /\ run_result' = NoRun
                 /\ pc' = IF plamo_path = NoPlamoPath THEN "plamo_not_found"
                          ELSE "plamo_start"
    /\ UNCHANGED <<fs, plamo_path, path_list, plamo_frame>>

\* lines 164-166 (direct call) and 221-223 (run): the not-found error
PlamoNotFound ==
    /\ pc = "plamo_not_found"
    /\ \E d \in DialogOutcomes :
         /\ shown' = show_plamo_not_found_error(shown, d, shell_name, path_list)
         /\ IF mode = "direct"
            THEN /\ outcome' = IF d = "OSError" THEN Raise(OsascriptError)
                               ELSE Raise(ValueError(MSG_PLAMO_NOT_FOUND))
                 /\ pc' = "plamo_done"
                 /\ UNCHANGED run_result
            ELSE /\ run_result' = IF d = "OSError" THEN RunRaise(OsascriptError)
                                  ELSE RunReturn(FALSE)
                 /\ pc' = "plamo_run_done"
                 /\ UNCHANGED outcome
    /\ UNCHANGED <<calls, text, now, start_time, end_time, elapsed_time, procs,
                   result, exc, mode, fs, plamo_path, path_list, plamo_frame>>

\* line 169: start_time = time.time()
PlamoStart ==
    /\ pc = "plamo_start"
    /\ start_time' = now
    /\ pc' = "plamo_invoke"
    /\ UNCHANGED <<calls, text, now, end_time, elapsed_time, procs, result, exc,
                   outcome, mode, shown, run_result, fs, plamo_path, path_list,
                   plamo_frame>>

\* lines 173-194: the one invocation, the end of the timer, the classification
PlamoInvoke ==
    /\ pc = "plamo_invoke"
    /\ \E r \in PlamoOutcomes(fs, invoked_path(plamo_path, path_list, fs)), d \in Delays :
         /\ now' = now + d
         /\ procs' = Append(procs,
                Attempt(plamo_cmd(invoked_path(plamo_path, path_list, fs), text),
                        r, now, now + d))
         /\ IF r.status = "completed"
            THEN /\ result' = r
                 /\ end_time' = now + d
                 /\ elapsed_time' = (now + d) - start_time
                 /\ LET c == PlamoClassify(r, (now + d) - start_time)
                    IN  IF c.kind = "return"
                        THEN /\ outcome' = c
                             /\ pc' = "plamo_done"
                             /\ UNCHANGED exc
                        ELSE /\ exc' = c.exc
                             /\ pc' = "plamo_except"
                             /\ UNCHANGED outcome
            ELSE /\ exc' = PlamoRunException(r)
                 /\ pc' = "plamo_except"
                 /\ UNCHANGED <<result, end_time, elapsed_time, outcome>>
    /\ UNCHANGED <<calls, text, start_time, mode, shown, run_result, fs, plamo_path,
                   path_list, plamo_frame>>

\* lines 196-212: the handler that matches the exception in flight
PlamoExcept ==
    /\ pc = "plamo_except"
    /\ end_time' = now
    /\ elapsed_time' = now - start_time
    /\ outcome' = Raise(PlamoHandle(exc))
    /\ exc' = NoExc
    /\ pc' = "plamo_done"
    /\ UNCHANGED <<calls, text, now, start_time, procs, result, mode, shown,
                   run_result, fs, plamo_path, path_list, plamo_frame>>

\* lines 128-133: pbcopy; only a SubprocessError is swallowed
ClipboardOutcomes == {"copied", "SubprocessError", "OSError"}
PbcopyError == Exc("FileNotFoundError", <<Lit("[Errno 2] No such file or directory: '/usr/bin/pbcopy'")>>)

\* lines 251-254: except Exception in run: the error dialog, return False
RunUnexpected(log, e, d) ==
    [shown |-> show_dialog(log, d, "Error", <<LIT_RUN_UNEXPECTED>> \o e.msg),
     run_result |-> IF d = "OSError" THEN RunRaise(OsascriptError) ELSE RunReturn(FALSE)]

\* lines 229-246: clipboard, result dialog, print, return True
RunSuccess(log, t, c, d, d2) ==
    LET copied == IF c = "copied" THEN Append(log, Entry("clipboard", "", t)) ELSE log
        message == <<Txt(t), LIT_TIMES>>
    IN  IF c = "OSError" THEN RunUnexpected(log, PbcopyError, d2)
        ELSE IF d = "OSError"
        THEN RunUnexpected(copied, OsascriptError, d2)
        ELSE [shown |-> Append(show_dialog(copied, d, "Result", message),
                               Entry("stdout", "", <<Txt(t)>>)),
              run_result |-> RunReturn(TRUE)]

\* lines 248-250: except ValueError in run: the error dialog, return False
RunFailure(log, e, d) ==
    [shown |-> show_dialog(log, d, "Error", e.msg),
     run_result |-> IF d = "OSError" THEN RunRaise(OsascriptError) ELSE RunReturn(FALSE)]

\* lines 227-254: translate_with_plamo_cli has ended inside run
PlamoRunResult ==
    /\ pc = "plamo_done"
    /\ mode = "run"
    /\ \E c \in ClipboardOutcomes, d, d2 \in DialogOutcomes :
         LET r == IF outcome.kind = "return"
                  THEN RunSuccess(shown, outcome.text, c, d, d2)
                  ELSE RunFailure(shown, outcome.exc, d)
         IN  /\ shown' = r.shown
             /\ run_result' = r.run_result
    /\ pc' = "plamo_run_done"
    /\ UNCHANGED <<calls, text, now, start_time, end_time, elapsed_time, procs,
                   result, exc, outcome, mode, fs, plamo_path, path_list, plamo_frame>>

\* the caller takes the outcome; the session is ready for its next call
PlamoFinish ==
    /\ \/ pc = "plamo_done" /\ mode = "direct"
       \/ pc = "plamo_run_done"
    /\ calls < MaxCalls
    /\ pc' = "plamo_idle"
    /\ UNCHANGED <<calls, text, now, start_time, end_time, elapsed_time, procs,
                   result, exc, outcome, mode, shown, run_result, fs, plamo_path,
                   path_list, plamo_frame>>

\* the environment, between two calls: a plamo-translate is installed in,
\* or removed from, a directory
FsChange ==
    /\ pc = "plamo_idle"
    /\ \E f \in SessionFilesystems :
         /\ Cardinality({d \in Dirs : f[d] # fs[d]}) = 1
         /\ fs' = f
    /\ UNCHANGED <<pc, calls, text, now, start_time, end_time, elapsed_time, procs,
                   result, exc, outcome, mode, shown, run_result, plamo_path,
                   path_list, plamo_frame>>

PlamoNext ==
    \/ PlamoTranslateCall
    \/ PlamoRunCall
    \/ PlamoNotFound
    \/ PlamoStart
    \/ PlamoInvoke
    \/ PlamoExcept
    \/ PlamoRunResult
    \/ PlamoFinish
    \/ FsChange

SpecPlamo == PlamoInit /\ [][PlamoNext]_vars

TranslateEnded == pc = "plamo_done"
RunEnded == pc = "plamo_run_done"
NotLocated == plamo_path = NoPlamoPath
\* some presented entry names every directory of the session's path_list
DiagnosticsCarryPathList ==
    \E i \in 1..Len(shown) :
        /\ Contains(shown[i].msg, MSG_PLAMO_NOT_FOUND[1])
        /\ \A k \in 1..Len(path_list) : Contains(shown[i].msg, Str(path_list[k]))

\* C19: when no executable was located (plamo_path is None), a call of
\* translate_with_plamo_cli ends by raising the executable-not-found
\* ValueError and a call of run with a text ends by returning False, no
\* transport process is started, and the diagnostics presented name every
\* directory of the session's path_list.
C19_NotFoundCarriesPathList ==
    (NotLocated /\ text # "" /\ (TranslateEnded \/ RunEnded))
        => /\ procs = <<>>
           /\ DiagnosticsCarryPathList
           /\ mode = "direct" => outcome = Raise(ValueError(MSG_PLAMO_NOT_FOUND))
           /\ mode = "run" => run_result = RunReturn(FALSE)

\* C20: translate_with_plamo_cli runs the located executable exactly once,
\* as [path, "--input", text]; a non-zero exit is a failure whose message
\* carries standard error, or standard output when standard error is
\* empty; a zero exit whose output is empty after trimming is the
\* empty-result failure; otherwise the call returns the trimmed standard
\* output, which is not empty.  No second invocation on any path.
C20_OneInvocationClassified ==
    (TranslateEnded /\ ~NotLocated)
        => /\ Len(procs) = 1
           /\ procs[1].cmd = <<plamo_path, "--input", text>>
           /\ LET r == procs[1].result
              IN  r.status = "completed"
                    => /\ r.returncode # 0
                          => /\ Raised
                             /\ outcome.exc.type = "ValueError"
                             /\ Contains(outcome.exc.msg, LIT_PLAMO_ERROR)
                             /\ Contains(outcome.exc.msg,
                                    IF r.stderr # "" THEN Str(r.stderr) ELSE Txt(r.stdout))
                       /\ (r.returncode = 0 /\ strip(r.stdout) = <<>>)
                          => /\ Raised
                             /\ outcome.exc.type = "ValueError"
                             /\ Contains(outcome.exc.msg, MSG_EMPTY[1])
                       /\ (r.returncode = 0 /\ strip(r.stdout) # <<>>)
                          => /\ outcome = Return(strip(r.stdout), procs[1].finished - start_time)
                             /\ outcome.text # <<>>

C20_Witness ==
    /\ TranslateEnded
    /\ Len(procs) = 1
    /\ procs[1].result.status = "completed"
    /\ procs[1].result.returncode = 0
    /\ procs[1].result.stdout = <<" ", "a">>
    /\ outcome.kind = "return"
    /\ outcome.text = <<"a">>

(***************************************************************************)
(* Both kinds of session: a behaviour is the life of one constructed       *)
(* QuickTranslator or of one constructed PlamoTranslator.                  *)
(***************************************************************************)
AllInit == Init \/ PlamoInit
AllNext == Next \/ PlamoNext
SpecAll == AllInit /\ [][AllNext]_vars

GeminiEnded == pc = "done"
TimedOut(i) == procs[i].result.status = "TimeoutExpired"
NonZeroExit(i) ==
    /\ procs[i].result.status = "completed"
    /\ procs[i].result.returncode # 0

\* C11: a transport that times out is never followed by another attempt:
\* a Variant A timeout ends translate_with_api with the timeout error and
\* no Variant B attempt, a plamo-translate timeout ends
\* translate_with_plamo_cli with its timeout error after exactly one
\* invocation; the timeout error is not the non-zero-exit error, and a
\* non-zero exit never yields the timeout error.
C11_TimeoutNeverRetried ==
    /\ \A i \in 1..Len(procs) : TimedOut(i) => i = Len(procs)
    /\ (GeminiEnded /\ procs # <<>> /\ TimedOut(Len(procs)))
          => /\ outcome = Raise(ValueError(MSG_TIMEOUT))
             /\ ~Contains(outcome.exc.msg, LIT_CURL)
             /\ TimedOut(1) => Len(procs) = 1
    /\ (TranslateEnded /\ procs # <<>> /\ TimedOut(Len(procs)))
          => /\ outcome = Raise(ValueError(MSG_PLAMO_TIMEOUT))
             /\ ~Contains(outcome.exc.msg, LIT_PLAMO_ERROR)
             /\ Len(procs) = 1
    /\ ((GeminiEnded \/ TranslateEnded) /\ procs # <<>> /\ NonZeroExit(Len(procs)))
          => /\ Raised
             /\ outcome.exc.msg \notin {MSG_TIMEOUT, MSG_PLAMO_TIMEOUT}

C11_Witness ==
    /\ GeminiEnded
    /\ Len(procs) = 1
    /\ TimedOut(1)
    /\ procs[1].cmd.variant = "header"
    /\ outcome = Raise(ValueError(MSG_TIMEOUT))

\* C12: a call of translate_with_api or translate_with_plamo_cli with a
\* non-empty text ends in exactly one outcome, a returned (text, elapsed)
\* or one raised ValueError and no exception of another type, after at
\* most two transport attempts (hosted session) or one (local CLI); a call
\* that has not ended can take a step.
C12_OneTerminalOutcome ==
    /\ (GeminiEnded \/ TranslateEnded)
          => /\ text # ""
             /\ outcome.kind \in {"return", "raise"}
             /\ outcome.kind = "raise" => outcome.exc.type = "ValueError"
             /\ outcome.kind = "return" => outcome.exc = NoExc
             /\ Len(procs) <= IF GeminiEnded THEN 2 ELSE 1
    /\ pc \in {"create_temp", "write_payload", "run_header", "check_returncode",
               "finally", "parse", "except", "plamo_not_found", "plamo_start",
               "plamo_invoke", "plamo_except"}
          => /\ outcome = NoOutcome
             /\ ENABLED AllNext

\* C14: the credential, the located path and the list of searched
\* directories are those of the construction on every step of every
\* translate or run call; no step launches a login-shell probe or scans
\* the directories again, and the invocation uses the path the session
\* holds whatever the filesystem has become.
C14_ResolvedOnceAtConstruction ==
    [][/\ api_key' = api_key
       /\ plamo_path' = plamo_path
       /\ path_list' = path_list
       /\ probes' = probes
       /\ probes.shell = 1
       /\ pc = "plamo_invoke"
             => /\ Len(procs') = 1
                /\ procs'[1].cmd[1] = plamo_path]_vars

C14_Witness ==
    /\ TranslateEnded
    /\ calls = 2
    /\ plamo_path = join("/usr/bin", "plamo-translate")
    /\ fs["/usr/bin"] = "dir"
    /\ fs["/usr/local/bin"] = "exec"
    /\ path_list = <<"/usr/local/bin", "/usr/bin">>
    /\ Len(procs) = 1
    /\ procs[1].cmd = <<plamo_path, "--input", text>>
    /\ procs[1].result.status = "FileNotFoundError"
    /\ probes = [shell |-> 1, scan |-> 1]

\* the failure raised at the point of classification of the last transport
ClassifiedAt ==
    IF Last.returncode # 0 THEN Raise(ValueError(CurlErrorMsg(Last)))
    ELSE Classify(Last.stdout, procs[1].finished - start_time)

\* C24: a failure classified inside translate_with_api (both transports
\* failed, malformed response, application error, no result, empty result)
\* reaches the caller as it was raised: same kind, same message, without the
\* unexpected-error prefix of an enclosing handler.
C24_ClassifiedFailureVerbatim ==
    (GeminiEnded /\ procs # <<>> /\ Last.status = "completed"
       /\ ClassifiedAt.kind = "raise" /\ ClassifiedAt.exc.type = "ValueError")
        => /\ outcome = ClassifiedAt
           /\ ~Contains(outcome.exc.msg, LIT_UNEXPECTED)

SpawnFailed ==
    /\ procs # <<>>
    /\ Last.status \in {"FileNotFoundError", "PermissionError"}

\* C25: when the transport process cannot be spawned (curl is missing, the
\* located plamo-translate was removed or is no longer executable), the
\* call ends with the ProcessError failure: a ValueError with the
\* process-error message, which is neither the non-zero-exit message, nor
\* the timeout message, nor the unexpected-error message.
C25_SpawnFailureIsProcessError ==
    ((GeminiEnded \/ TranslateEnded) /\ SpawnFailed)
        => /\ Raised
           /\ outcome.exc.type = "ValueError"
           /\ Contains(outcome.exc.msg, LIT_PROCESS)
           /\ ~Contains(outcome.exc.msg, LIT_UNEXPECTED)
           /\ ~Contains(outcome.exc.msg, LIT_CURL)
           /\ ~Contains(outcome.exc.msg, LIT_PLAMO_ERROR)
           /\ outcome.exc.msg \notin {MSG_TIMEOUT, MSG_PLAMO_TIMEOUT}

\* C27: translate_with_plamo_cli presents nothing itself: when it has ended,
\* on every path, the executable-not-found one included, no dialog was
\* shown and nothing was written to standard output or standard error by
\* the call; presentation is left to run.
C27_EngineNeverPresents ==
    TranslateEnded => shown = <<>>

(***************************************************************************)
(* QuickTranslator.run (src/translate_gemini.py, lines 204-242): the       *)
(* empty-text check, the call of translate_with_api (the actions of the    *)
(* hosted session above), then the clipboard, the dialog and the result.   *)
(***************************************************************************)
LIT_API_TIMES == Lit("translation API time, total time")

\* lines 215-232: clipboard, result dialog, print, return True
GeminiRunSuccess(log, t, c, d, d2) ==
    LET copied == IF c = "copied" THEN Append(log, Entry("clipboard", "", t)) ELSE log
        message == <<Txt(t), LIT_API_TIMES>>
    IN  IF c = "OSError" THEN RunUnexpected(log, PbcopyError, d2)
        ELSE IF d = "OSError"
        THEN RunUnexpected(copied, OsascriptError, d2)
        ELSE [shown |-> Append(show_dialog(copied, d, "Result", message),
                               Entry("stdout", "", <<Txt(t)>>)),
              run_result |-> RunReturn(TRUE)]

\* a constructed QuickTranslator whose run method is about to be called
RunInit ==
    /\ NoHarness
    /\ api_key \in ApiKeys
    /\ pc = "run_idle"
    /\ NoCallYet
    /\ probes = [shell |-> 1, scan |-> 0]
    /\ NoKeyResolution
    /\ NoLocation
    /\ NoPlamoSession

\* lines 204-213: entry of run: the empty-text check, else the call of
\* translate_with_api
GeminiRunCall ==
    /\ pc = "run_idle"
    /\ calls < MaxCalls
    /\ mode' = "run"
    /\ \E t \in InputTexts \cup {""} :
         IF t = ""
         THEN \E d \in DialogOutcomes :
                 /\ shown' = show_dialog(<<>>, d, "Error", MSG_NO_TEXT)
                 /\ run_result' = IF d = "OSError" THEN RunRaise(OsascriptError)
                                  ELSE RunReturn(FALSE)
                 /\ text' = t
                 /\ calls' = calls + 1
                 /\ procs' = <<>>
                 /\ unlink_calls' = <<>>
                 /\ result' = NoResult
                 /\ response_data' = NoData
                 /\ outcome' = NoOutcome
                 /\ pc' = "run_done"
         ELSE /\ shown' = <<>>
              /\ run_result' = NoRun
              /\ pc' = "idle"
              /\ UNCHANGED <<text, calls, procs, unlink_calls, result, response_data,
                             outcome>>
    /\ UNCHANGED <<api_key, now, start_time, end_time, elapsed_time, tmp_files,
                   temp_file, temp_file_path, exc, resolver_vars, fs, plamo_path,
                   path_list>>
    /\ UNCHANGED harness_vars

\* lines 213-242: translate_with_api has ended inside run
GeminiRunResult ==
    /\ pc = "done"
    /\ mode = "run"
    /\ \E c \in ClipboardOutcomes, d, d2 \in DialogOutcomes :
         LET r == IF outcome.kind = "return"
                  THEN GeminiRunSuccess(shown, outcome.text, c, d, d2)
                  ELSE IF outcome.exc.type = "ValueError"
                  THEN RunFailure(shown, outcome.exc, d)
                  ELSE RunUnexpected(shown, outcome.exc, d)
         IN  /\ shown' = r.shown
             /\ run_result' = r.run_result
    /\ pc' = "run_done"
    /\ UNCHANGED <<gemini_vars_but_pc, resolver_vars, fs, plamo_path, path_list, mode>>
    /\ UNCHANGED harness_vars

\* run has returned; the session is ready for its next call of run
GeminiRunFinish ==
    /\ pc = "run_done"
    /\ calls < MaxCalls
    /\ pc' = "run_idle"
    /\ UNCHANGED <<gemini_vars_but_pc, resolver_vars, plamo_vars>>
    /\ UNCHANGED harness_vars

RunNext ==
    \/ GeminiRunCall
    \/ Call
    \/ CreateTemp
    \/ WritePayload
    \/ RunHeader
    \/ NoFallback
    \/ RunUrlParam
    \/ Unlink
    \/ Parse
    \/ Except
    \/ GeminiRunResult
    \/ GeminiRunFinish
    \/ PlamoNext

SpecRun == (RunInit \/ PlamoInit) /\ [][RunNext]_vars

RunOver == pc \in {"run_done", "plamo_run_done"}
IsClipboard(e) == e.via = "clipboard"
IsDialog(e) == e.via = "dialog"
IsPresentation(e) == e.via # "clipboard"
ResultDialogs(t) ==
    {Entry("dialog", "Result", <<Txt(t), lit>>) : lit \in {LIT_TIMES, LIT_API_TIMES}}

\* C21: when the translation has succeeded, run has made at most one
\* clipboard copy, of the translated text and before anything is presented,
\* then shown exactly one result dialog with the text and the timings, then
\* printed the text, and it returns True; a failed clipboard copy changes
\* neither the dialog nor the True result.
C21_SuccessCopyDialogPrintTrue ==
    (RunOver /\ mode = "run" /\ outcome.kind = "return")
        => /\ run_result = RunReturn(TRUE)
           /\ SelectSeq(shown, IsClipboard) \in {<<>>, <<Entry("clipboard", "", outcome.text)>>}
           /\ \A i \in 2..Len(shown) : ~IsClipboard(shown[i])
           /\ LET presented == SelectSeq(shown, IsPresentation)
              IN  /\ Len(presented) = 2
                  /\ presented[1] \in ResultDialogs(outcome.text)
                  /\ presented[2] = Entry("stdout", "", <<Txt(outcome.text)>>)

\* C22: when run ends without a successful translation it returns False,
\* has shown exactly one error dialog and has copied nothing to the
\* clipboard; for an empty text no translate call and no transport process
\* was made; for a ValueError of the translate call the dialog shows its
\* message unchanged; for another exception the message is prefixed as an
\* unexpected error.
C22_FailureOneErrorDialogFalse ==
    (RunOver /\ mode = "run" /\ outcome.kind # "return")
        => /\ run_result = RunReturn(FALSE)
           /\ SelectSeq(shown, IsClipboard) = <<>>
           /\ LET dialogs == SelectSeq(shown, IsDialog)
              IN  /\ Len(dialogs) = 1
                  /\ dialogs[1].title = "Error"
                  /\ text = "" => /\ dialogs[1].msg = MSG_NO_TEXT
                                  /\ procs = <<>>
                                  /\ outcome = NoOutcome
                  /\ (outcome.kind = "raise" /\ outcome.exc.type = "ValueError")
                        => dialogs[1].msg = outcome.exc.msg
                  /\ (outcome.kind = "raise" /\ outcome.exc.type # "ValueError")
                        => dialogs[1].msg = <<LIT_RUN_UNEXPECTED>> \o outcome.exc.msg

(***************************************************************************)
(* main (src/translate_gemini.py lines 245-264, src/translate_plamo.py     *)
(* lines 257-276): the input text, the construction of the translator, the *)
(* call of run, the exit status.  What run does is modelled by the         *)
(* sessions above; here its result is any of those it can end with.        *)
(***************************************************************************)
\* command-line arguments; an argument may hold whitespace
ArgWords == {<<>>, <<"a">>, <<" ", "a">>, <<"a", "\n">>}
ArgLists == UNION {[1..n -> ArgWords] : n \in 0..MaxArgs}

\* " ".join(sys.argv[1:])
RECURSIVE join_args(_)
join_args(args) ==
    IF args = <<>> THEN <<>>
    ELSE IF Len(args) = 1 THEN Head(args)
    ELSE Head(args) \o <<" ">> \o join_args(Tail(args))

\* lines 247-257: standard input when it is not a terminal, else the
\* arguments, else the empty string; then strip()
main_input_ArgsFirst(isatty, data, args) ==
    strip(IF Len(args) > 0 THEN join_args(args)
          ELSE IF ~isatty THEN data
          ELSE <<>>)

main_input(isatty, data, args) ==
    strip(IF ~isatty THEN data
          ELSE IF Len(args) > 0 THEN join_args(args)
          ELSE <<>>)

\* line 264: sys.exit(0 if success else 1); an exception that leaves main
\* ends the interpreter with status 1
exit_status(r) == IF r.kind = "return" /\ r.value THEN 0 ELSE 1

\* what translator.run(input_text) can end with (RunSuccess, RunFailure,
\* RunUnexpected): an empty text never gives True (lines 206-209, 216-218)
RunResults(t) ==
    {RunReturn(FALSE), RunRaise(OsascriptError)}
    \cup (IF t # <<>> THEN {RunReturn(TRUE)} ELSE {})

MainInit ==
    /\ pc = "main_start"
    /\ api_key = None
    /\ NoCallYet
    /\ probes = [shell |-> 0, scan |-> 0]
    /\ NoKeyResolution
    /\ NoLocation
    /\ NoPlamoSession
    /\ stdin_isatty \in BOOLEAN
    /\ stdin_data \in IF stdin_isatty THEN {<<>>} ELSE Texts
    /\ argv \in ArgLists
    /\ input_text = <<>>
    /\ run_args = <<>>
    /\ exit_code = Unset
    /\ NoBench
    /\ NoPair
    /\ NoRunBenchmark

main_frame ==
    <<gemini_vars_but_pc, resolver_vars, fs, plamo_path, path_list, mode, shown,
      bench_vars, pair_vars, rb>>

\* lines 247-257
MainRead ==
    /\ pc = "main_start"
    /\ input_text' = main_input(stdin_isatty, stdin_data, argv)
    /\ pc' = "main_construct"
    /\ UNCHANGED <<stdin_isatty, stdin_data, argv, run_args, exit_code, run_result,
                   main_frame>>

\* line 260: the constructor returns, or an exception of its probe leaves main
MainConstruct ==
    /\ pc = "main_construct"
    /\ \/ /\ pc' = "main_run"
          /\ UNCHANGED exit_code
       \/ /\ exit_code' = 1
          /\ pc' = "main_exited"
    /\ UNCHANGED <<stdin_isatty, stdin_data, argv, input_text, run_args, run_result,
                   main_frame>>

\* line 261: success = translator.run(input_text)
MainRun ==
    /\ pc = "main_run"
    /\ run_args' = Append(run_args, input_text)
    /\ \E r \in RunResults(input_text) : run_result' = r
    /\ pc' = "main_ran"
    /\ UNCHANGED <<stdin_isatty, stdin_data, argv, input_text, exit_code, main_frame>>

\* line 264
MainExit ==
    /\ pc = "main_ran"
    /\ exit_code' = exit_status(run_result)
    /\ pc' = "main_exited"
    /\ UNCHANGED <<stdin_isatty, stdin_data, argv, input_text, run_args, run_result,
                   main_frame>>

MainNext == MainRead \/ MainConstruct \/ MainRun \/ MainExit

SpecMain == MainInit /\ [][MainNext]_vars

Trimmed(t) == t = <<>> \/ (t[1] \notin Whitespace /\ t[Len(t)] \notin Whitespace)
\* the text the claim names, before the removal of the whitespace
MainSource ==
    IF ~stdin_isatty THEN stdin_data
    ELSE IF argv # <<>> THEN join_args(argv)
    ELSE <<>>

\* C23: the text main passes to run is the standard input when it is not a
\* terminal, otherwise the arguments joined by single spaces, otherwise
\* the empty string, without its leading and trailing whitespace; the
\* process ends with status 0 if and only if run returned True, and with
\* status 1 otherwise.
C23_MainInputAndExitCode ==
    /\ run_args # <<>>
          => /\ Len(run_args) = 1
             /\ Trimmed(run_args[1])
             /\ \E i, j \in 0..Len(MainSource) :
                   /\ i + j <= Len(MainSource)
                   /\ run_args[1] = SubSeq(MainSource, i + 1, Len(MainSource) - j)
                   /\ \A k \in (1..i) \cup ((Len(MainSource) - j + 1)..Len(MainSource)) :
                         MainSource[k] \in Whitespace
    /\ pc = "main_exited"
          => /\ exit_code \in {0, 1}
             /\ exit_code = 0 <=> (run_args # <<>> /\ run_result = RunReturn(TRUE))

C23_Witness ==
    /\ pc = "main_exited"
    /\ stdin_isatty
    /\ argv = << <<" ", "a">>, <<"a", "\n">> >>
    /\ run_args = << <<"a", " ", "a">> >>
    /\ run_result = RunReturn(TRUE)
    /\ exit_code = 0

(***************************************************************************)
(* TranslationBenchmark (src/translation_benchmark.py): the three          *)
(* translate operations.  A call is two steps: the entry, which binds the  *)
(* arguments, and the body, which runs to its return.                      *)
(***************************************************************************)
\* the documents the OpenAI endpoint may print
ChoiceValues ==
    {[finish_reason |-> "stop"], [message |-> [role |-> "assistant"]]}
    \cup {[message |-> [content |-> t]] : t \in Texts}
ChoiceLists == {<<>>} \cup {<<c>> : c \in ChoiceValues}
OpenAiDocs ==
    {[object |-> "chat.completion"]}
    \cup {[choices |-> cl] : cl \in ChoiceLists}
    \cup {[error |-> e] : e \in ErrorValues}
OpenAiStdouts ==
    {[syntax |-> "json", doc |-> d] : d \in OpenAiDocs}
    \cup {[syntax |-> "text", raw |-> r] : r \in {"", "Invalid JSON"}}

\* what subprocess.run(curl_cmd) can do, for the documents of one provider
BenchTransportResults(stdouts) ==
    {[status |-> "completed", returncode |-> 0, stdout |-> o, stderr |-> ""] : o \in stdouts}
    \cup {[status |-> "completed", returncode |-> c, stdout |-> NoData, stderr |-> e] :
             c \in FailCodes, e \in Stderrs}
    \cup {[status |-> st, returncode |-> 0, stdout |-> NoData, stderr |-> ""] :
             st \in {"TimeoutExpired", "SubprocessError", "FileNotFoundError"}}

bench_cmd(provider, key, path) == [provider |-> provider, header_key |-> key, data |-> path]

\* lines 115-124: the body after a zero exit, for the OpenAI documents
OpenAiClassify(data, elapsed) ==
    LET parsed == json_loads(data)
        doc == parsed.value
    IN  IF ~parsed.ok THEN BenchRaise(Exc("JSONDecodeError", <<Lit("Expecting value")>>))
        ELSE IF "error" \in DOMAIN doc THEN BenchNone(elapsed)
        ELSE IF "choices" \in DOMAIN doc /\ doc.choices # <<>>
        THEN IF "message" \notin DOMAIN doc.choices[1]
             THEN BenchRaise(Exc("KeyError", <<Lit("'message'")>>))
             ELSE IF "content" \notin DOMAIN doc.choices[1].message
             THEN BenchRaise(Exc("KeyError", <<Lit("'content'")>>))
             ELSE BenchText(strip(doc.choices[1].message.content), elapsed)
        ELSE BenchNone(elapsed)

\* lines 183-192: the body after a zero exit, for the Gemini documents
BenchGeminiClassify(data, elapsed) ==
    LET parsed == json_loads(data)
        doc == parsed.value
    IN  IF ~parsed.ok THEN BenchRaise(Exc("JSONDecodeError", <<Lit("Expecting value")>>))
        ELSE IF "error" \in DOMAIN doc THEN BenchNone(elapsed)
        ELSE IF "candidates" \in DOMAIN doc /\ doc.candidates # <<>>
        THEN IF "content" \notin DOMAIN doc.candidates[1]
             THEN BenchRaise(Exc("KeyError", <<Lit("'content'")>>))
             ELSE IF "parts" \notin DOMAIN doc.candidates[1].content
             THEN BenchRaise(Exc("KeyError", <<Lit("'parts'")>>))
             ELSE IF doc.candidates[1].content.parts = <<>>
             THEN BenchRaise(Exc("IndexError", <<Lit("list index out of range")>>))
             ELSE IF "text" \notin DOMAIN doc.candidates[1].content.parts[1]
             THEN BenchRaise(Exc("KeyError", <<Lit("'text'")>>))
             ELSE BenchText(strip(doc.candidates[1].content.parts[1].text), elapsed)
        ELSE BenchNone(elapsed)

BenchClassify(provider, data, elapsed) ==
    IF provider = "openai" THEN OpenAiClassify(data, elapsed)
    ELSE BenchGeminiClassify(data, elapsed)

\* lines 132-134, 200-202, 263-265: except Exception: (None, elapsed) with
\* the time re-read in the handler
bench_except_Reraise(body, elapsed) == body
bench_except(body, elapsed) ==
    IF body.kind = "raise" THEN BenchNone(elapsed) ELSE body

\* lines 112-124 / 180-192 with the handler: the result for a transport result
BenchHostedResult(provider, r, t1, t2) ==
    bench_except(
        IF r.status # "completed" THEN BenchRaise(RunException(r))
        ELSE IF r.returncode # 0 THEN BenchNone(t1)
        ELSE BenchClassify(provider, r.stdout, t1),
        t2)

bench_frame ==
    <<api_key, end_time, temp_file_path, result, response_data, exc, outcome,
      resolver_vars, plamo_path, path_list, mode, shown, run_result, main_vars,
      pair_vars, rb, openai_key, gemini_key>>

BenchOps == {"openai", "gemini", "plamo"}

\* lines 75, 136, 204: a translate operation is called; its locals are unbound
BenchCall ==
    /\ pc = "bench_idle"
    /\ calls < MaxCalls
    /\ pc' = "bench_call"
    /\ calls' = calls + 1
    /\ \E op \in BenchOps : bench_op' = op
    /\ \E t \in InputTexts : text' = t
    /\ bench_result' = NoBenchResult
    /\ which_probe' = NoProbe
    /\ procs' = <<>>
    /\ unlink_calls' = <<>>
    /\ temp_file' = NoPath
    /\ start_time' = Unset
    /\ elapsed_time' = Unset
    /\ now' = 0
    /\ UNCHANGED <<fs, tmp_files, bench_frame>>

\* lines 75-134 (_translate_openai) and 136-202 (_translate_gemini)
BenchHosted(provider, key, stdouts) ==
    /\ pc = "bench_call"
    /\ bench_op = provider
    /\ pc' = "bench_idle"
    /\ IF KeyMissing(key)
       THEN /\ bench_result' = BenchNone(0)
            /\ UNCHANGED <<procs, unlink_calls, temp_file, start_time, elapsed_time,
                           now, tmp_files>>
       ELSE \E d1, d2 \in Delays :
              /\ start_time' = 0
              /\ \/ \* NamedTemporaryFile raises
                    /\ temp_file' = NoPath
                    /\ procs' = <<>>
                    /\ unlink_calls' = <<>>
                    /\ now' = d2
                    /\ elapsed_time' = Unset
                    /\ bench_result' =
                          bench_except(BenchRaise(Exc("OSError", <<Lit("[Errno 28] No space left on device")>>)), d2)
                    /\ UNCHANGED tmp_files
                 \/ \* json.dump raises: the file exists, the inner try is not entered
                    /\ temp_file' = calls + 1
                    /\ tmp_files' = tmp_files \cup {calls + 1}
                    /\ procs' = <<>>
                    /\ unlink_calls' = <<>>
                    /\ now' = d2
                    /\ elapsed_time' = Unset
                    /\ bench_result' =
                          bench_except(BenchRaise(Exc("OSError", <<Lit("[Errno 28] No space left on device")>>)), d2)
                 \/ \* the transport runs, then the finally clause unlinks
                    \E r \in BenchTransportResults(stdouts), ok \in BOOLEAN :
                       /\ temp_file' = calls + 1
                       /\ procs' = <<Attempt(bench_cmd(provider, key, calls + 1), r, 0, d1)>>
                       /\ unlink_calls' = <<[path |-> calls + 1, ok |-> ok]>>
                       /\ tmp_files' = IF ok THEN tmp_files \ {calls + 1}
                                       ELSE tmp_files \cup {calls + 1}
                       /\ now' = d1 + d2
                       /\ elapsed_time' = IF r.status = "completed" THEN d1 ELSE Unset
                       /\ bench_result' = BenchHostedResult(provider, r, d1, d1 + d2)
    /\ UNCHANGED <<calls, text, bench_op, which_probe, fs, bench_frame>>

TranslateOpenai == BenchHosted("openai", openai_key, OpenAiStdouts)
TranslateGemini == BenchHosted("gemini", gemini_key, Stdouts)

\* lines 210-220: what the "which plamo-translate" login-shell probe can do;
\* a path is the token of its directory
WhichStdouts == {<<>>, <<"\n">>} \cup {<<d, "\n">> : d \in Dirs}
WhichProbes ==
    {[status |-> "completed", returncode |-> 0, stdout |-> o] : o \in WhichStdouts}
    \cup {[status |-> "completed", returncode |-> 1, stdout |-> <<>>],
          [status |-> "TimeoutExpired", returncode |-> 0, stdout |-> <<>>]}

\* lines 224-228: common_paths, in the order of the list
bench_common_paths == <<HomeLocalBin, "/usr/local/bin", "/opt/homebrew/bin">>

\* lines 229-232: the first common path that is an executable file
RECURSIVE first_common(_, _)
first_common(ps, f) ==
    IF ps = <<>> THEN <<>>
    ELSE IF is_executable_file(f, Head(ps)) THEN <<Head(ps)>>
    ELSE first_common(Tail(ps), f)

\* lines 207-232: the located plamo-translate, <<>> when plamo_path is falsy
bench_plamo_path(probe, f) ==
    LET shell == IF probe.status = "completed" /\ probe.returncode = 0
                 THEN strip(probe.stdout) ELSE <<>>
    IN  IF shell # <<>> THEN shell ELSE first_common(bench_common_paths, f)

\* lines 251-261 with the handler of lines 263-265
BenchPlamoResult(r, t1, t2) ==
    bench_except(
        IF r.status # "completed" THEN BenchRaise(PlamoRunException(r))
        ELSE IF r.returncode # 0 THEN BenchNone(t1)
        ELSE IF strip(r.stdout) # <<>> THEN BenchText(strip(r.stdout), t1)
        ELSE BenchNone(t1),
        t2)

\* lines 204-265 (_translate_plamo)
TranslatePlamo ==
    /\ pc = "bench_call"
    /\ bench_op = "plamo"
    /\ pc' = "bench_idle"
    /\ \E probe \in WhichProbes :
         /\ which_probe' = probe
         /\ LET path == bench_plamo_path(probe, fs)
            IN  IF path = <<>>
                THEN /\ bench_result' = BenchNone(0)
                     /\ UNCHANGED <<procs, start_time, elapsed_time, now>>
                ELSE \E d1, d2 \in Delays, r \in PlamoOutcomes(fs, path) :
                       /\ start_time' = 0
                       /\ procs' = <<Attempt(plamo_cmd(path, text), r, 0, d1)>>
                       /\ now' = d1 + d2
                       /\ elapsed_time' = IF r.status = "completed" THEN d1 ELSE Unset
                       /\ bench_result' = BenchPlamoResult(r, d1, d1 + d2)
    /\ UNCHANGED <<calls, text, bench_op, temp_file, unlink_calls, fs, tmp_files,
                   bench_frame>>

\* the filesystems of the benchmark: each directory may hold the executable
BenchFilesystems ==
    {f \in Filesystems : \A d \in Dirs : f[d] \in {"dir", "exec"}}

BenchKeys == {None, "", "sk-test"}

\* lines 56-59: a constructed TranslationBenchmark
BenchInit ==
    /\ NoMain
    /\ NoPair
    /\ NoRunBenchmark
    /\ pc = "bench_idle"
    /\ api_key = None
    /\ NoCallYet
    /\ NoKeyResolution
    /\ NoLocation
    /\ probes = [shell |-> 0, scan |-> 0]
    /\ fs \in BenchFilesystems
    /\ plamo_path = NoPlamoPath
    /\ path_list = <<>>
    /\ mode = "none"
    /\ shown = <<>>
    /\ run_result = NoRun
    /\ openai_key \in BenchKeys
    /\ gemini_key \in BenchKeys
    /\ which_probe = NoProbe
    /\ bench_op = "none"
    /\ bench_result = NoBenchResult

BenchNext == BenchCall \/ TranslateOpenai \/ TranslateGemini \/ TranslatePlamo

SpecBench == BenchInit /\ [][BenchNext]_vars

\* a translate operation of the benchmark has returned or raised
BenchEnded == pc = "bench_idle" /\ bench_op # "none"
BenchIsHosted == bench_op \in {"openai", "gemini"}
BenchKey == IF bench_op = "openai" THEN openai_key ELSE gemini_key
BenchAttempt == procs[1]

\* the call had nothing to send with: no credential, or no executable found
\* by the shell probe nor in a common directory
BenchNothingToRun ==
    IF BenchIsHosted THEN BenchKey \in {None, ""}
    ELSE /\ ~(/\ which_probe.status = "completed"
              /\ which_probe.returncode = 0
              /\ \E i \in DOMAIN which_probe.stdout : which_probe.stdout[i] \notin Whitespace)
         /\ \A d \in Range(bench_common_paths) : fs[d] # "exec"

\* the provider's document carries no result: not JSON, an error field, or
\* no first choice / candidate
BenchNoAnswer(o) ==
    \/ o.syntax = "text"
    \/ /\ o.syntax = "json"
       /\ \/ "error" \in DOMAIN o.doc
          \/ /\ bench_op = "openai"
             /\ ("choices" \notin DOMAIN o.doc \/ o.doc.choices = <<>>)
          \/ /\ bench_op = "gemini"
             /\ ("candidates" \notin DOMAIN o.doc \/ o.doc.candidates = <<>>)

\* the single transport attempt failed
BenchFailed ==
    LET r == BenchAttempt.result
    IN  \/ r.status # "completed"
        \/ r.returncode # 0
        \/ IF BenchIsHosted THEN BenchNoAnswer(r.stdout)
           ELSE \A i \in DOMAIN r.stdout : r.stdout[i] \in Whitespace

\* the time returned was measured: after the attempt, not after the return
BenchMeasured ==
    /\ bench_result.elapsed # Unset
    /\ BenchAttempt.finished - BenchAttempt.started <= bench_result.elapsed
    /\ bench_result.elapsed <= now

\* everything of the claim but the fate of the payload file
BenchCallShape ==
    /\ bench_result.kind = "return"
    /\ Len(procs) <= 1
    /\ BenchNothingToRun => bench_result = BenchNone(0) /\ procs = <<>>
    /\ ~BenchNothingToRun /\ ~BenchIsHosted => Len(procs) = 1
    /\ procs # <<>> /\ BenchIsHosted
          => BenchAttempt.cmd = bench_cmd(bench_op, BenchKey, temp_file)
    /\ procs # <<>> /\ BenchFailed => bench_result.none /\ BenchMeasured
    /\ ~bench_result.none
          => /\ procs # <<>>
             /\ ~BenchFailed
             /\ BenchMeasured
             /\ ~BenchIsHosted
                   => /\ bench_result.value # <<>>
                      /\ bench_result.value = strip(BenchAttempt.result.stdout)
                      /\ Head(bench_result.value) \notin Whitespace
                      /\ bench_result.value[Len(bench_result.value)] \notin Whitespace

\* C29 (as claimed): a translate operation of the benchmark never raises,
\* makes at most one transport attempt (the header variant for the hosted
\* providers), returns (None, 0.0) without a transport process when it has
\* no credential or no executable, returns (None, elapsed) on a non-zero
\* exit, timeout, spawn error, unparseable output, error field or missing
\* result, returns a text of the local CLI only when it is non-empty after
\* trimming, and the payload file of a hosted call that reached the
\* transport is gone from disk when the call ends.
C29_BenchCallRemovesPayload ==
    BenchEnded
        => /\ BenchCallShape
           /\ BenchIsHosted /\ procs # <<>> => temp_file \notin tmp_files

\* C29 (amended): as above, but for the payload file: its removal is
\* attempted exactly once, on the call's own file, on every path that
\* reached the transport, and the file is gone whenever os.unlink succeeded.
C29_BenchCallAttemptsRemoval ==
    BenchEnded
        => /\ BenchCallShape
           /\ BenchIsHosted /\ procs # <<>>
                 => /\ Len(unlink_calls) = 1
                    /\ unlink_calls[1].path = temp_file
                    /\ unlink_calls[1].ok => temp_file \notin tmp_files

\* a hosted call whose transport timed out: (None, elapsed), file removed
C29_Witness ==
    /\ BenchEnded
    /\ bench_op = "openai"
    /\ procs # <<>>
    /\ BenchAttempt.result.status = "TimeoutExpired"
    /\ bench_result = BenchNone(now)
    /\ now > BenchAttempt.finished
    /\ unlink_calls = <<[path |-> temp_file, ok |-> TRUE]>>
    /\ temp_file \notin tmp_files

(***************************************************************************)
(* Two sessions translating at the same time: a QuickTranslator            *)
(* (translate_with_api, lines 90-157) and a TranslationBenchmark           *)
(* (_translate_openai, lines 95-130), or two of a kind.  Each step below   *)
(* is one system call or one child process of one session; the steps of    *)
(* the two sessions interleave freely.  The only thing the sessions have   *)
(* in common is the temporary directory.                                   *)
(***************************************************************************)
Sessions == {1, 2}
SessionKinds == {"gemini", "openai"}
Names == 1..MaxNames
Peer(s) == 3 - s

\* a file of the temporary directory: who created it, whose payload it holds
\* (0: nothing written yet)
NoFile == [creator |-> 0, content |-> -1]
File(s, c) == [creator |-> s, content |-> c]

\* what the provider answers to a session's own payload, per attempt
PairAnswer == [status |-> "completed", returncode |-> 0,
               stdout |-> [syntax |-> "json",
                           doc |-> [candidates |-> <<[content |-> [parts |-> <<[text |-> <<"a", " ">>]>>]]>>,
                                    choices |-> <<[message |-> [content |-> <<"a", " ">>]]>>]],
               stderr |-> ""]
PairRefusal == [status |-> "completed", returncode |-> 0,
                stdout |-> [syntax |-> "json", doc |-> [error |-> [code |-> 400]]],
                stderr |-> ""]
PairResults ==
    {PairAnswer, PairRefusal,
     [status |-> "completed", returncode |-> 7, stdout |-> NoData, stderr |-> "Connection failed"],
     [status |-> "TimeoutExpired", returncode |-> 0, stdout |-> NoData, stderr |-> ""]}
Plans == [1..2 -> PairResults]

\* curl could not read the file named by -d @path
PairUnreadable ==
    [status |-> "completed", returncode |-> 26, stdout |-> NoData, stderr |-> "Failed to open/read local data"]

\* tempfile.NamedTemporaryFile opens with O_CREAT | O_EXCL and retries with
\* another random name while the name exists: the name is one not in use
FreshNames_AnyName(d) == Names
FreshNames(d) == {n \in Names : d[n] = NoFile}

\* the attempts a session has to make: the benchmark has one variant, the
\* QuickTranslator falls back once after a non-zero exit (line 135)
MoreAttempts(kind, rs) ==
    /\ kind = "gemini"
    /\ Len(rs) = 1
    /\ rs[1].status = "completed"
    /\ ShouldFallback(rs[1])

\* what the call returns or raises for the results of its attempts, the
\* elapsed time left out
PairOutcome(kind, rs) ==
    LET last == rs[Len(rs)]
    IN  IF kind = "openai"
        THEN LET b == BenchHostedResult("openai", last, 0, 0)
             IN  IF b.none THEN Return(<<"None">>, 0) ELSE Return(b.value, 0)
        ELSE IF last.status # "completed" THEN Raise(Handle(RunException(last)))
        ELSE IF last.returncode # 0 THEN Raise(Handle(ValueError(CurlErrorMsg(last))))
        ELSE LET c == Classify(last.stdout, 0)
             IN  IF c.kind = "raise" THEN Raise(Handle(c.exc)) ELSE c

Access(op, n, d) == [op |-> op, name |-> n, creator |-> d[n].creator]

NewSession(kind, plan) ==
    [kind |-> kind, plan |-> plan, pc |-> "create", path |-> NoPath,
     attempts |-> <<>>, accesses |-> <<>>, peer_active |-> FALSE,
     outcome |-> NoOutcome]

PairInit ==
    /\ NoMain
    /\ NoBench
    /\ NoRunBenchmark
    /\ pc = "pair"
    /\ api_key = "test-gemini-api-key"
    /\ NoCallYet
    /\ NoKeyResolution
    /\ NoLocation
    /\ probes = [shell |-> 0, scan |-> 0]
    /\ NoPlamoSession
    /\ sess \in [Sessions -> {NewSession(k, p) : k \in SessionKinds, p \in Plans}]
    /\ tmp_dir = [n \in Names |-> NoFile]

pair_frame == <<gemini_vars, resolver_vars, plamo_vars, main_vars, bench_vars, rb>>

InFlight(s) == sess[s].pc \in {"write", "run", "unlink"}

\* gemini line 92, benchmark line 96: NamedTemporaryFile(delete=False)
PairCreate(s) ==
    /\ sess[s].pc = "create"
    /\ \E n \in FreshNames(tmp_dir) :
         LET made == File(IF tmp_dir[n] = NoFile THEN s ELSE tmp_dir[n].creator, 0)
             d == [tmp_dir EXCEPT ![n] = made]
         IN  /\ tmp_dir' = d
             /\ sess' = [sess EXCEPT ![s].pc = "write",
                                     ![s].path = n,
                                     ![s].accesses = Append(@, Access("create", n, d))]
    /\ UNCHANGED pair_frame

\* gemini lines 93-94, benchmark lines 97-98: json.dump and close
PairWrite(s) ==
    /\ sess[s].pc = "write"
    /\ LET n == sess[s].path
       IN  /\ tmp_dir' = IF tmp_dir[n] = NoFile THEN tmp_dir
                         ELSE [tmp_dir EXCEPT ![n].content = s]
           /\ sess' = [sess EXCEPT ![s].pc = "run",
                                   ![s].accesses = Append(@, Access("write", n, tmp_dir))]
    /\ UNCHANGED pair_frame

\* what curl -d @path gets: the provider answers the payload it was sent
PairCurl(s, k) ==
    LET f == tmp_dir[sess[s].path]
    IN  IF f = NoFile THEN PairUnreadable
        ELSE IF f.content = s THEN sess[s].plan[k]
        ELSE IF f.content = Peer(s) THEN sess[Peer(s)].plan[k]
        ELSE PairRefusal

\* gemini lines 123-142, benchmark line 109: one subprocess.run(curl_cmd)
PairRun(s) ==
    /\ sess[s].pc = "run"
    /\ LET n == sess[s].path
           rs == Append(sess[s].attempts, PairCurl(s, Len(sess[s].attempts) + 1))
       IN  sess' = [sess EXCEPT ![s].attempts = rs,
                                ![s].accesses = Append(@, Access("read", n, tmp_dir)),
                                ![s].peer_active = @ \/ InFlight(Peer(s)),
                                ![s].pc = IF MoreAttempts(sess[s].kind, rs)
                                          THEN "run" ELSE "unlink"]
    /\ UNCHANGED <<tmp_dir, pair_frame>>

\* gemini lines 152-157, benchmark lines 126-130: os.unlink in the finally
\* clause, its failure dropped
PairUnlink(s) ==
    /\ sess[s].pc = "unlink"
    /\ LET n == sess[s].path
       IN  IF tmp_dir[n] = NoFile
           THEN /\ sess' = [sess EXCEPT ![s].pc = "return"]
                /\ UNCHANGED tmp_dir
           ELSE /\ sess' = [sess EXCEPT ![s].pc = "return",
                                        ![s].accesses = Append(@, Access("delete", n, tmp_dir))]
                /\ tmp_dir' = [tmp_dir EXCEPT ![n] = NoFile]
    /\ UNCHANGED pair_frame

\* gemini lines 159-202, benchmark lines 112-134: the call returns or raises
PairReturn(s) ==
    /\ sess[s].pc = "return"
    /\ sess' = [sess EXCEPT ![s].pc = "done",
                            ![s].outcome = PairOutcome(sess[s].kind, sess[s].attempts)]
    /\ UNCHANGED <<tmp_dir, pair_frame>>

PairNext ==
    \E s \in Sessions :
        \/ PairCreate(s)
        \/ PairWrite(s)
        \/ PairRun(s)
        \/ PairUnlink(s)
        \/ PairReturn(s)

SpecPair == PairInit /\ [][PairNext]_vars

\* what the call does when its session runs alone: every attempt reads the
\* session's own payload
SoloAttempts(kind, plan) ==
    IF MoreAttempts(kind, <<plan[1]>>) THEN <<plan[1], plan[2]>> ELSE <<plan[1]>>
SoloOutcome(kind, plan) == PairOutcome(kind, SoloAttempts(kind, plan))

\* the files a session has in use are its own, and differ from the peer's
PairOwnFiles ==
    \A s \in Sessions :
        /\ \A i \in DOMAIN sess[s].accesses : sess[s].accesses[i].creator = s
        /\ InFlight(s) => tmp_dir[sess[s].path].creator = s
        /\ InFlight(s) /\ InFlight(Peer(s)) => sess[s].path # sess[Peer(s)].path

\* a finished session has the outcome of a solo run
PairSoloOutcome ==
    \A s \in Sessions :
        sess[s].pc = "done"
            => /\ sess[s].attempts = SoloAttempts(sess[s].kind, sess[s].plan)
               /\ sess[s].outcome = SoloOutcome(sess[s].kind, sess[s].plan)

\* a step of one session leaves the other session's state and files alone
PairStepLocal ==
    \A s \in Sessions :
        sess'[s] # sess[s]
            => /\ sess'[Peer(s)] = sess[Peer(s)]
               /\ \A n \in Names :
                     tmp_dir'[n] # tmp_dir[n]
                         => /\ tmp_dir[n].creator \in {0, s}
                            /\ tmp_dir'[n].creator \in {0, s}

\* C28: two sessions whose translate calls interleave do not interfere: each
\* uses a temporary file of its own whose name differs from the peer's while
\* both are in use, creates, writes, reads and deletes only files it created,
\* changes neither the peer's state nor the peer's files, and ends with the
\* outcome of a solo run with the same transport responses.
C28_SessionsDoNotInterfere ==
    /\ [](pc = "pair" => PairOwnFiles /\ PairSoloOutcome)
    /\ [][pc = "pair" => PairStepLocal]_vars

\* both calls are over, each ran its transport while the other had its file
\* on disk, and the QuickTranslator needed its fallback
C28_Witness ==
    /\ pc = "pair"
    /\ \A s \in Sessions : sess[s].pc = "done" /\ sess[s].peer_active
    /\ sess[1].kind = "gemini"
    /\ sess[2].kind = "openai"
    /\ Len(sess[1].attempts) = 2
    /\ sess[1].outcome = Return(<<"a">>, 0)
    /\ sess[2].outcome = Return(<<"None">>, 0)

(***************************************************************************)
(* TranslationBenchmark.run_benchmark (src/translation_benchmark.py,       *)
(* lines 267-436): the loops over models, test cases and iterations, and   *)
(* the plamo-translate server it starts for the prestart phase.            *)
(***************************************************************************)
\* lines 38-52 (MODELS) in the order run_benchmark walks them, the plamo
\* model once without and once with the server started beforehand
Phases ==
    <<[family |-> "openai", model |-> "gpt-4.1-nano", prestart |-> FALSE],
      [family |-> "openai", model |-> "gpt-4.1-mini", prestart |-> FALSE],
      [family |-> "openai", model |-> "o4-mini", prestart |-> FALSE],
      [family |-> "gemini", model |-> "gemini-2.0-flash-lite", prestart |-> FALSE],
      [family |-> "gemini", model |-> "gemini-2.5-flash-lite", prestart |-> FALSE],
      [family |-> "gemini", model |-> "gemini-2.5-flash", prestart |-> FALSE],
      [family |-> "plamo", model |-> "plamo-translate", prestart |-> FALSE],
      [family |-> "plamo", model |-> "plamo-translate", prestart |-> TRUE]>>

\* lines 17-35 (TEST_CASES)
TestCases == <<"short_jp_to_en", "long_jp_to_en", "short_en_to_jp", "long_en_to_jp">>

\* what run_benchmark looks at in the pair a translate operation returns:
\* the truth value of the text (line 292) and the elapsed time
RbObserve(r) == [translated |-> ~r.none /\ r.value # <<>>, elapsed |-> r.elapsed]

\* the pairs _translate_openai and _translate_gemini can return with a credential
HostedObserved(provider, stdouts) ==
    {RbObserve(BenchHostedResult(provider, r, d1, d1 + d2)) :
        r \in BenchTransportResults(stdouts), d1 \in Delays, d2 \in Delays}
    \cup {RbObserve(bench_except(BenchRaise(Exc("OSError", <<Lit("[Errno 28] No space left on device")>>)), d)) :
            d \in Delays}
OpenAiObserved == HostedObserved("openai", OpenAiStdouts)
GeminiObserved == HostedObserved("gemini", Stdouts)

\* the pairs _translate_plamo can return on a filesystem
PlamoObservedOn(f) ==
    UNION {LET path == bench_plamo_path(probe, f)
           IN  IF path = <<>> THEN {RbObserve(BenchNone(0))}
               ELSE {RbObserve(BenchPlamoResult(r, d1, d1 + d2)) :
                        r \in PlamoOutcomes(f, path), d1 \in Delays, d2 \in Delays} :
           probe \in WhichProbes}
PlamoObserved == [f \in BenchFilesystems |-> PlamoObservedOn(f)]

\* lines 291, 324, 354, 403: the pairs the call of this phase can return
RbCallObserved(family) ==
    IF family = "openai"
    THEN IF KeyMissing(openai_key) THEN {RbObserve(BenchNone(0))} ELSE OpenAiObserved
    ELSE IF family = "gemini"
    THEN IF KeyMissing(gemini_key) THEN {RbObserve(BenchNone(0))} ELSE GeminiObserved
    ELSE PlamoObserved[fs]

ModelFamilies == {"openai", "gemini", "plamo"}

\* line 267: run_benchmark is entered
RbEntered(iterations, models) ==
    [pc |-> "phase", iterations |-> iterations, models_to_test |-> models,
     phase |-> 1, test |-> 1, i |-> 0, times |-> <<>>, success_count |-> 0,
     loop_calls |-> 0, noprestart_calls |-> 0, prestart_calls |-> 0,
     server_process |-> FALSE, server |-> "none", start_failed |-> FALSE,
     outcome |-> "none"]

RbFilesystems ==
    {f \in BenchFilesystems : \A d \in Dirs \ {"/usr/local/bin"} : f[d] = "dir"}

RbInit ==
    /\ NoMain
    /\ NoPair
    /\ pc = "run_benchmark"
    /\ api_key = None
    /\ NoCallYet
    /\ NoKeyResolution
    /\ NoLocation
    /\ probes = [shell |-> 0, scan |-> 0]
    /\ fs \in RbFilesystems
    /\ plamo_path = NoPlamoPath
    /\ path_list = <<>>
    /\ mode = "none"
    /\ shown = <<>>
    /\ run_result = NoRun
    /\ openai_key \in {None, "sk-test"}
    /\ gemini_key \in {"", "sk-test"}
    /\ which_probe = NoProbe
    /\ bench_op = "none"
    /\ bench_result = NoBenchResult
    /\ rb \in {RbEntered(n, m) : n \in 0..MaxIterations, m \in SUBSET ModelFamilies}

rb_frame ==
    <<gemini_vars, resolver_vars, plamo_vars, main_vars, bench_vars, pair_vars>>

\* lines 279, 312, 345, 374-378: the next model, if it is to be tested
RbPhase ==
    /\ rb.pc = "phase"
    /\ rb' = IF rb.phase > Len(Phases)
             THEN [rb EXCEPT !.pc = "done", !.outcome = "returned"]
             ELSE IF Phases[rb.phase].family \notin rb.models_to_test
             THEN [rb EXCEPT !.phase = @ + 1]
             ELSE IF Phases[rb.phase].prestart
             THEN [rb EXCEPT !.pc = "start_server"]
             ELSE [rb EXCEPT !.pc = "case", !.test = 1]
    /\ UNCHANGED rb_frame

\* lines 285-288, 318-321, 348-351, 397-400: the next test case
RbCase ==
    /\ rb.pc = "case"
    /\ rb' = [rb EXCEPT !.pc = "iter", !.times = <<>>, !.success_count = 0,
                        !.i = 0, !.loop_calls = 0]
    /\ UNCHANGED rb_frame

\* lines 290-297, 323-330, 353-360, 402-409: one iteration
RbIterate ==
    /\ rb.pc = "iter"
    /\ rb.i < rb.iterations
    /\ \E o \in RbCallObserved(Phases[rb.phase].family) :
         rb' = [rb EXCEPT
                  !.i = @ + 1,
                  !.loop_calls = @ + 1,
                  !.noprestart_calls =
                      IF Phases[rb.phase].family = "plamo" /\ ~Phases[rb.phase].prestart
                      THEN @ + 1 ELSE @,
                  !.prestart_calls = IF Phases[rb.phase].prestart THEN @ + 1 ELSE @,
                  !.times = IF o.translated THEN Append(@, o.elapsed) ELSE @,
                  !.success_count = IF o.translated THEN @ + 1 ELSE @]
    /\ UNCHANGED rb_frame

\* the for loop over range(iterations) is exhausted
RbLoopEnd ==
    /\ rb.pc = "iter"
    /\ rb.i >= rb.iterations
    /\ rb' = [rb EXCEPT !.pc = "stats"]
    /\ UNCHANGED rb_frame

\* lines 299-309, 332-342, 362-372, 411-421: the statistics, then the next
\* test case, the next model or, after the prestart phase, the cleanup
RbStats ==
    /\ rb.pc = "stats"
    /\ rb' = IF rb.test < Len(TestCases)
             THEN [rb EXCEPT !.pc = "case", !.test = @ + 1]
             ELSE IF Phases[rb.phase].prestart
             THEN [rb EXCEPT !.pc = "cleanup"]
             ELSE [rb EXCEPT !.pc = "phase", !.phase = @ + 1]
    /\ UNCHANGED rb_frame

\* lines 379-395: subprocess.Popen(["plamo-translate", "server"]), the wait
\* of 20 seconds; any Exception is printed and run_benchmark returns
RbStartServer ==
    /\ rb.pc = "start_server"
    /\ \/ rb' = [rb EXCEPT !.pc = "case", !.test = 1, !.server_process = TRUE,
                           !.server = "running"]
       \/ rb' = [rb EXCEPT !.pc = "done", !.start_failed = TRUE,
                           !.outcome = "returned"]
    /\ UNCHANGED rb_frame

\* the server process ends by itself
RbServerExits ==
    /\ rb # <<>>
    /\ rb.server = "running"
    /\ rb.pc # "done"
    /\ rb' = [rb EXCEPT !.server = "exited"]
    /\ UNCHANGED rb_frame

\* what terminate(), wait(timeout=5), kill() and wait() can do
CleanupOutcomes == {"exited_in_time", "killed", "terminate_error", "kill_error"}

\* lines 424-436: the cleanup of the server process
RbCleanup ==
    /\ rb.pc = "cleanup"
    /\ IF ~rb.server_process
       THEN rb' = [rb EXCEPT !.pc = "done", !.outcome = "returned"]
       ELSE IF rb.server = "exited"
       THEN \* terminate() finds the process gone, wait() returns at once
            rb' = [rb EXCEPT !.pc = "done", !.outcome = "returned"]
       ELSE \E c \in CleanupOutcomes :
              rb' = IF c \in {"exited_in_time", "killed"}
                    THEN [rb EXCEPT !.pc = "done", !.outcome = "returned",
                                    !.server = "exited"]
                    ELSE IF c = "terminate_error"
                    THEN \* lines 435-436: the error is printed
                         [rb EXCEPT !.pc = "done", !.outcome = "returned"]
                    ELSE \* kill() raises inside the TimeoutExpired handler
                         [rb EXCEPT !.pc = "done", !.outcome = "raised"]
    /\ UNCHANGED rb_frame

RbNext ==
    \/ RbPhase
    \/ RbCase
    \/ RbIterate
    \/ RbLoopEnd
    \/ RbStats
    \/ RbStartServer
    \/ RbServerExits
    \/ RbCleanup

SpecRunBenchmark == RbInit /\ [][RbNext]_vars

RbAllCalls == Len(TestCases) * rb.iterations

\* C30: with plamo selected the server is started only after every
\* iteration of the no-prestart phase; a failed start ends run_benchmark
\* without any prestart iteration; after all prestart iterations the server
\* is terminated, or killed after 5 seconds, so that when run_benchmark
\* returns normally no server it started is running; every loop makes exactly
\* `iterations` translate calls, and the recorded timings are as many as the
\* successes, at most `iterations`.
C30_ServerLifecycleAndCounts ==
    rb # <<>>
        => /\ rb.server_process
                 => "plamo" \in rb.models_to_test /\ rb.noprestart_calls = RbAllCalls
           /\ rb.prestart_calls > 0 => rb.server_process
           /\ rb.start_failed
                 => rb.prestart_calls = 0 /\ rb.pc = "done" /\ rb.outcome = "returned"
           /\ rb.pc = "cleanup" => rb.prestart_calls = RbAllCalls
           /\ rb.pc = "done" /\ rb.outcome = "returned" => rb.server # "running"
           /\ rb.pc = "stats" => rb.loop_calls = rb.iterations
           /\ Len(rb.times) = rb.success_count
           /\ rb.success_count <= rb.loop_calls
           /\ rb.loop_calls <= rb.iterations

====
